---- MODULE Spec2Model ----
(***************************************************************************)
(* A model of the runboat controller: the derived build status, the        *)
(* in-memory index of builds (BuildsDb), the deployment and job watchers,  *)
(* the reconcilers (initializer, stopper, undeployer) and deploy_commit,   *)
(* running against a cluster that holds the deployments and the jobs.      *)
(***************************************************************************)
EXTENDS Integers, Sequences, FiniteSets, TLC

\* ---------------------------------------------------------------- bounds
\* Build names b1 .. bMaxBuilds (uuid names in the program).
MaxBuilds == 3
\* Clock readings 1 .. MaxTime (second-precision timestamps: ties can happen).
MaxTime == 3
\* Largest replica count of a deployment snapshot given to the status function.
MaxReplicas == 2
\* The index runs (add, remove, reset and the queries on their own): names
\* b1 .. bMaxDbBuilds, clock readings 1 .. MaxDbTime.
MaxDbBuilds == 2
MaxDbTime == 2
\* Settings (RUNBOAT_MAX_INITIALIZING, RUNBOAT_MAX_STARTED, RUNBOAT_MAX_DEPLOYED),
\* configured small here so that the model's few builds exceed them.
\* Commits 1 .. MaxCommits of a branch or of a pull request.
MaxCommits == 2
\* Watch events that may wait in a stream before the cluster is held back.
MaxQueue == 3
\* Deployments in the cluster when the initializer is followed.
MaxInitBuilds == 2
max_initializing == 1
max_started == 1
max_deployed == 1

\* Python's None for an integer field (a value outside every range used).
None == 0 - 1

Names == 1 .. MaxBuilds
Times == 1 .. MaxTime

\* ------------------------------------------------------------ models.py
BuildStatus ==
    {"stopped", "stopping", "initializing", "starting", "started", "failed",
     "undeploying"}

BuildInitStatus == {"todo", "started", "succeeded", "failed"}

\* A faulty _status_from_deployment that reads the init-status before the
\* deletion timestamp.
status_from_deployment_swapped(deployment) ==
    IF deployment.init_status \in {"todo", "started"} THEN "initializing"
    ELSE IF deployment.init_status = "failed" THEN "failed"
    ELSE IF deployment.deletion_timestamp # None THEN "undeploying"
    ELSE IF deployment.init_status = "succeeded" THEN
        IF deployment.replicas = None \/ deployment.replicas = 0 THEN
            IF deployment.status_replicas # None /\ deployment.status_replicas # 0
            THEN "stopping" ELSE "stopped"
        ELSE
            IF deployment.available_replicas = deployment.replicas
            THEN "started" ELSE "starting"
    ELSE "RuntimeError"

\* Build._status_from_deployment: a value outside BuildInitStatus in the
\* annotation raises RuntimeError.
status_from_deployment(deployment) ==
    IF deployment.deletion_timestamp # None THEN "undeploying"
    ELSE IF deployment.init_status \in {"todo", "started"} THEN "initializing"
    ELSE IF deployment.init_status = "failed" THEN "failed"
    ELSE IF deployment.init_status = "succeeded" THEN
        IF deployment.replicas = None \/ deployment.replicas = 0 THEN
            IF deployment.status_replicas # None /\ deployment.status_replicas # 0
            THEN "stopping" ELSE "stopped"
        ELSE
            IF deployment.available_replicas = deployment.replicas
            THEN "started" ELSE "starting"
    ELSE "RuntimeError"

\* Build.from_deployment: the Build value object of a deployment snapshot.
\* "pr" is the annotation or None, desired_replicas is "spec.replicas or 0",
\* last_scaled is the annotation or, without it, the creation timestamp.
from_deployment(deployment) ==
    [name |-> deployment.name,
     repo |-> deployment.repo,
     target_branch |-> deployment.target_branch,
     pr |-> deployment.pr,
     git_commit |-> deployment.git_commit,
     init_status |-> deployment.init_status,
     status |-> status_from_deployment(deployment),
     desired_replicas |->
        IF deployment.replicas = None THEN 0 ELSE deployment.replicas,
     last_scaled |->
        IF deployment.last_scaled = None THEN deployment.creation_timestamp
        ELSE deployment.last_scaled,
     created |-> deployment.creation_timestamp]

\* A faulty __eq__ that leaves last_scaled out.
BuildEq_without_last_scaled(self, other) ==
    /\ self.name = other.name
    /\ self.status = other.status
    /\ self.init_status = other.init_status
    /\ self.desired_replicas = other.desired_replicas

\* Build.__eq__ for two builds: the name, then the four mutable fields.
BuildEq(self, other) ==
    /\ self.name = other.name
    /\ self.status = other.status
    /\ self.init_status = other.init_status
    /\ self.desired_replicas = other.desired_replicas
    /\ self.last_scaled = other.last_scaled

VARIABLES
    db,      \* BuildsDb: the builds table, a function from the names present
    wakeup,  \* Controller._wakeup_*: the wake flag of each reconciler
    arg,     \* the call under examination: [op |-> ..., its arguments]
    ret,     \* what that call returned or delivered; NoRet before it ran
    cluster, \* the labeled deployments of the namespace, by build name
    jobs,    \* the phase of each build's initialize job ("none": no job)
    devents, \* watch_deployments(): the events not yet consumed
    jevents, \* watch_jobs(): the events not yet consumed
    now,     \* the last reading of the clock (seconds)
    cleanups,  \* the phase of each build's cleanup job ("none": no job)
    notified,  \* github.notify_status: the commit statuses posted so far
    pc         \* Controller._tasks: where each of the six tasks stands

vars ==
    <<db, wakeup, arg, ret, cluster, jobs, devents, jevents, now, cleanups,
      notified, pc>>

\* The cluster side and the tasks, untouched by the runs of a function or of
\* the index alone.
sysvars == <<cluster, jobs, devents, jevents, now, cleanups, notified, pc>>

Reconcilers == {"initializer", "stopper", "undeployer", "cleaner"}

\* Controller.start: the six background tasks.
Tasks == {"deployment_watcher", "job_watcher"} \cup Reconcilers

\* Every task is in its loop: a watcher reads its stream, a reconciler waits
\* for its wake flag.
AllRunning == [t \in Tasks |-> "running"]

\* No cleanup job yet, no commit status posted yet, every task in its loop.
NoCleanups ==
    /\ cleanups = [n \in Names |-> "none"]
    /\ notified = {}
    /\ pc = AllRunning

\* settings.no_cleanup_job: builds are undeployed with a cleanup job.
no_cleanup_job == FALSE

NoCluster ==
    /\ cluster = << >>
    /\ jobs = [n \in Names |-> "none"]
    /\ devents = << >>
    /\ jevents = << >>
    /\ now = 1
    /\ NoCleanups

NoArg == [op |-> "none"]
NoRet == [done |-> FALSE]

\* ---------------------------------------------------------------- db.py
\* BuildsDb.reset: a fresh empty table, no listener called.
EmptyDb == << >>

\* A faulty reset that keeps the rows.
reset_keeping_rows(d) == d

\* BuildsDb.reset: the table the index holds after the call.
reset(d) == EmptyDb

\* BuildsDb.get
NoBuild == [name |-> None]

get(d, name) == IF name \in DOMAIN d THEN d[name] ELSE NoBuild

\* BuildsDb.add: whether the stored entry differs (prev_build != build); a
\* missing entry (None) differs from every build.
add_changes(d, build) ==
    ~(build.name \in DOMAIN d /\ BuildEq(d[build.name], build))

\* A faulty add that leaves the table as it is.
add_nothing(d, build) == d

\* BuildsDb.add: the table after the call (INSERT OR REPLACE of the whole row).
add(d, build) ==
    IF add_changes(d, build)
    THEN [n \in DOMAIN d \cup {build.name} |->
            IF n = build.name THEN build ELSE d[n]]
    ELSE d

\* BuildsDb.remove: the table after the call.
remove(d, name) == [n \in DOMAIN d \ {name} |-> d[n]]

\* A faulty on_build_event that does not wake the stopper.
on_build_event_without_stopper(w) ==
    [r \in Reconcilers |-> IF r = "stopper" THEN w[r] ELSE TRUE]

\* Controller.on_build_event: every wake flag is set.
on_build_event(w) == [r \in Reconcilers |-> TRUE]

\* What add() delivers to a recording listener (BuildEvent.modified = "upd").
add_events(d, build) ==
    IF add_changes(d, build)
    THEN << [event |-> "upd", build |-> build] >> ELSE << >>

\* A faulty remove that notifies the listeners before it looks the name up.
remove_events_unconditional(d, name) ==
    << [event |-> "del", build |-> get(d, name)] >>

\* What remove() delivers to a recording listener (BuildEvent.removed = "del").
remove_events(d, name) ==
    IF name \in DOMAIN d
    THEN << [event |-> "del", build |-> d[name]] >> ELSE << >>

\* A faulty count_by_status that filters on the init_status column.
count_by_status_on_init_status(d, status) ==
    Cardinality({n \in DOMAIN d : d[n].init_status = status})

\* BuildsDb.count_by_status, count_by_init_status, count_all, count_deployed
count_by_status(d, status) ==
    Cardinality({n \in DOMAIN d : d[n].status = status})

count_by_init_status(d, init_status) ==
    Cardinality({n \in DOMAIN d : d[n].init_status = init_status})

count_all(d) == Cardinality(DOMAIN d)

count_deployed(d) ==
    Cardinality({n \in DOMAIN d : d[n].status # "undeploying"})

\* SQL leaves the order of rows with equal sort keys open: a tie-break is any
\* ranking of the rows, and every query below takes the one the engine used.
Ties == {t \in [Names -> Names] : \A a, b \in Names : a # b => t[a] # t[b]}

\* ORDER BY key (ascending): the rows of S by key[n], ties by tie[n].
RECURSIVE OrderBy(_, _, _)
OrderBy(S, key, tie) ==
    IF S = {} THEN << >>
    ELSE LET first == CHOOSE x \in S : \A y \in S \ {x} :
                        \/ key[x] < key[y]
                        \/ key[x] = key[y] /\ tie[x] < tie[y]
         IN  << first >> \o OrderBy(S \ {first}, key, tie)

\* LIMIT ?: the first rows; a negative limit is no limit in SQLite.
Limit(rows, limit) ==
    IF limit < 0 \/ limit >= Len(rows) THEN rows ELSE SubSeq(rows, 1, limit)

Field(d, f) == [n \in DOMAIN d |-> d[n][f]]

\* BuildsDb.to_cleanup
to_cleanup(d, tie) ==
    OrderBy({n \in DOMAIN d : d[n].status = "undeploying"},
            Field(d, "created"), tie)

\* A faulty to_initialize that serves the newest build first.
to_initialize_newest_first(d, limit, tie) ==
    Limit(OrderBy({n \in DOMAIN d : d[n].init_status = "todo"},
                  [n \in DOMAIN d |-> 0 - d[n].created], tie), limit)

\* BuildsDb.to_initialize
to_initialize(d, limit, tie) ==
    Limit(OrderBy({n \in DOMAIN d : d[n].init_status = "todo"},
                  Field(d, "created"), tie), limit)

\* A faulty oldest_started without its LIMIT.
oldest_started_unlimited(d, limit, tie) ==
    OrderBy({n \in DOMAIN d : d[n].status = "started"},
            Field(d, "last_scaled"), tie)

\* A faulty oldest_started that orders by created.
oldest_started_by_created(d, limit, tie) ==
    Limit(OrderBy({n \in DOMAIN d : d[n].status = "started"},
                  Field(d, "created"), tie), limit)

\* BuildsDb.oldest_started
oldest_started(d, limit, tie) ==
    Limit(OrderBy({n \in DOMAIN d : d[n].status = "started"},
                  Field(d, "last_scaled"), tie), limit)

\* A faulty window that partitions by repo alone.
rownum_by_repo_only(d, n, tie) ==
    1 + Cardinality({m \in DOMAIN d :
            /\ d[m].repo = d[n].repo
            /\ \/ d[m].created > d[n].created
               \/ d[m].created = d[n].created /\ tie[m] < tie[n]})

\* ROW_NUMBER () OVER (PARTITION BY repo, target_branch, pr ORDER BY created
\* DESC): the rank of row n among the rows of its partition, newest first
\* (NULL pr values fall into one partition).
rownum(d, n, tie) ==
    1 + Cardinality({m \in DOMAIN d :
            /\ d[m].repo = d[n].repo
            /\ d[m].target_branch = d[n].target_branch
            /\ d[m].pr = d[n].pr
            /\ \/ d[m].created > d[n].created
               \/ d[m].created = d[n].created /\ tie[m] < tie[n]})

\* A faulty oldest_stopped that evicts the builds of pull requests only.
oldest_stopped_pr_only(d, limit, wtie, tie) ==
    Limit(OrderBy({n \in DOMAIN d :
                      /\ d[n].status \in {"stopping", "stopped", "failed"}
                      /\ d[n].pr # None},
                  Field(d, "last_scaled"), tie), limit)

\* BuildsDb.oldest_stopped: wtie ranks equal rows inside the window, tie in
\* the final ORDER BY last_scaled.
oldest_stopped(d, limit, wtie, tie) ==
    Limit(OrderBy({n \in DOMAIN d :
                      /\ d[n].status \in {"stopping", "stopped", "failed"}
                      /\ (rownum(d, n, wtie) # 1 \/ d[n].pr # None)},
                  Field(d, "last_scaled"), tie), limit)

\* BuildsDb.get_for_commit: the rows the query matches (fetchone returns one
\* of them, None when there is none); "if pr" sends 0 and None to "pr IS NULL".
get_for_commit(d, repo, target_branch, pr, git_commit) ==
    {n \in DOMAIN d :
        /\ d[n].repo = repo
        /\ d[n].target_branch = target_branch
        /\ d[n].git_commit = git_commit
        /\ IF pr # None /\ pr # 0 THEN d[n].pr = pr ELSE d[n].pr = None}

\* ------------------------------------------------- the status function run
\* Every deployment snapshot the status function may be given: the five fields
\* it reads, each absent (None) or set; the annotation may hold any string.
StatusSnapshots ==
    [deletion_timestamp : {None} \cup Times,
     init_status : BuildInitStatus \cup {"bogus"},
     replicas : {None} \cup (0 .. MaxReplicas),
     status_replicas : {None} \cup (0 .. MaxReplicas),
     available_replicas : {None} \cup (0 .. MaxReplicas)]

InitStatus ==
    /\ db = EmptyDb
    /\ wakeup = [r \in Reconcilers |-> FALSE]
    /\ arg \in [op : {"status_from_deployment"}, deployment : StatusSnapshots]
    /\ ret = NoRet
    /\ NoCluster

ComputeStatus ==
    /\ ret = NoRet
    /\ ret' = [done |-> TRUE, status |-> status_from_deployment(arg.deployment)]
    /\ UNCHANGED <<db, wakeup, arg, sysvars>>

NextSnapshot ==
    /\ ret # NoRet
    /\ arg' \in [op : {"status_from_deployment"}, deployment : StatusSnapshots]
    /\ ret' = NoRet
    /\ UNCHANGED <<db, wakeup, sysvars>>

NextStatus == ComputeStatus \/ NextSnapshot

SpecStatus == InitStatus /\ [][NextStatus]_vars

\* Python's "x or 0" on an optional count.
OrZero(x) == IF x = None THEN 0 ELSE x

\* C9: the derived status of every deployment snapshot is the one the status
\* table gives for (deletion marker, init_status, desired_replicas,
\* current_replicas, available_replicas): a deletion marker gives undeploying
\* whatever the other fields; otherwise todo/started give initializing, failed
\* gives failed, succeeded gives stopping or stopped at 0 desired replicas
\* (current replicas > 0 or = 0) and started or starting at >= 1 desired
\* replicas (available = desired or < desired).
StatusMatchesTable ==
    ret.done =>
        LET snap == arg.deployment
            deleting == snap.deletion_timestamp # None
            desired == OrZero(snap.replicas)
            current == OrZero(snap.status_replicas)
            available == OrZero(snap.available_replicas)
        IN  /\ deleting => ret.status = "undeploying"
            /\ ~deleting /\ snap.init_status \in {"todo", "started"}
                    => ret.status = "initializing"
            /\ ~deleting /\ snap.init_status = "failed" => ret.status = "failed"
            /\ ~deleting /\ snap.init_status = "succeeded" /\ desired = 0
                    /\ current > 0 => ret.status = "stopping"
            /\ ~deleting /\ snap.init_status = "succeeded" /\ desired = 0
                    /\ current = 0 => ret.status = "stopped"
            /\ ~deleting /\ snap.init_status = "succeeded" /\ desired >= 1
                    /\ available = desired => ret.status = "started"
            /\ ~deleting /\ snap.init_status = "succeeded" /\ desired >= 1
                    /\ available < desired => ret.status = "starting"

\* The deletion marker wins over a failed initialization.
StatusWitness ==
    /\ ret.done
    /\ ret.status = "undeploying"
    /\ arg.deployment.init_status = "failed"
    /\ arg.deployment.replicas = 1
    /\ arg.deployment.available_replicas = 1

\* ------------------------------------------------------------ the index run
\* The deployment snapshots the index is fed from: Build.from_deployment of a
\* labeled deployment, with every init_status, replica count, deletion marker
\* and timestamp; the last-scaled annotation may be missing.
DbDeployments ==
    {dep \in
        [name : 1 .. MaxDbBuilds,
         repo : {"r"},
         target_branch : {"b"},
         pr : {None},
         git_commit : {1},
         init_status : BuildInitStatus,
         replicas : {0, 1},
         status_replicas : {0, 1},
         available_replicas : {0, 1},
         deletion_timestamp : {None, MaxDbTime},
         last_scaled : {None} \cup (1 .. MaxDbTime),
         creation_timestamp : 1 .. MaxDbTime] :
        /\ dep.status_replicas = dep.available_replicas
        /\ dep.last_scaled # None => dep.last_scaled >= dep.creation_timestamp}

DbBuilds == {from_deployment(dep) : dep \in DbDeployments}

InitDb ==
    /\ db = EmptyDb
    /\ wakeup = [r \in Reconcilers |-> FALSE]
    /\ arg = NoArg
    /\ ret = NoRet
    /\ NoCluster

\* db.add(build), with a recording listener and the controller registered.
DbAdd ==
    \E build \in DbBuilds :
        /\ db' = add(db, build)
        /\ wakeup' = IF add_changes(db, build) THEN on_build_event(wakeup)
                     ELSE wakeup
        /\ arg' = [op |-> "add", build |-> build]
        /\ ret' = [done |-> TRUE, events |-> add_events(db, build)]
        /\ UNCHANGED sysvars

\* db.remove(name)
DbRemove ==
    \E name \in 1 .. MaxDbBuilds :
        /\ db' = remove(db, name)
        /\ wakeup' = IF name \in DOMAIN db THEN on_build_event(wakeup)
                     ELSE wakeup
        /\ arg' = [op |-> "remove", name |-> name]
        /\ ret' = [done |-> TRUE, events |-> remove_events(db, name)]
        /\ UNCHANGED sysvars

\* db.reset()
DbReset ==
    /\ db' = reset(db)
    /\ arg' = [op |-> "reset"]
    /\ ret' = [done |-> TRUE, events |-> << >>]
    /\ UNCHANGED <<wakeup, sysvars>>

NextDb == DbAdd \/ DbRemove \/ DbReset

SpecDb == InitDb /\ [][NextDb]_vars

\* C10: add(b) compares b with the stored entry of the same name over status,
\* init_status, desired_replicas and last_scaled only. When they are equal
\* the table and the wake flags are left as they were and no event is
\* delivered; otherwise the row becomes b, no other row changes, and one
\* modified event for b is delivered (the controller's flags are all set).
\* An add(b) that follows an add(b) delivers nothing.
AddComparesMutableFields ==
    [][arg'.op = "add" =>
        LET b == arg'.build
            same == /\ b.name \in DOMAIN db
                    /\ db[b.name].status = b.status
                    /\ db[b.name].init_status = b.init_status
                    /\ db[b.name].desired_replicas = b.desired_replicas
                    /\ db[b.name].last_scaled = b.last_scaled
        IN  /\ same => /\ db' = db
                       /\ wakeup' = wakeup
                       /\ ret'.events = << >>
            /\ ~same => /\ DOMAIN db' = DOMAIN db \cup {b.name}
                        /\ db'[b.name] = b
                        /\ \A n \in DOMAIN db \ {b.name} : db'[n] = db[n]
                        /\ \A r \in Reconcilers : wakeup'[r]
                        /\ ret'.events = << [event |-> "upd", build |-> b] >>
            /\ (arg.op = "add" /\ arg.build = b) => ret'.events = << >>
    ]_vars

\* An add that was suppressed although the build differs from the stored row
\* in a field the comparison ignores.
AddWitness ==
    /\ arg.op = "add"
    /\ ret.events = << >>
    /\ arg.build.name \in DOMAIN db
    /\ db[arg.build.name].created # arg.build.created

\* C11: remove(name) on a name of the index deletes that row, leaves the
\* others, and delivers exactly one removed event (with the build as it was
\* stored); on an absent name the table and the wake flags stay as they were
\* and no event is delivered. So in add(b); remove(b.name); remove(b.name)
\* the first remove delivers one event and the second none: with the one of
\* add(b) on an index without b that makes two.
RemoveFiresIffPresent ==
    [][arg'.op = "remove" =>
        LET name == arg'.name
            present == name \in DOMAIN db
        IN  /\ present => /\ DOMAIN db' = DOMAIN db \ {name}
                          /\ \A n \in DOMAIN db' : db'[n] = db[n]
                          /\ \A r \in Reconcilers : wakeup'[r]
                          /\ ret'.events =
                                << [event |-> "del", build |-> db[name]] >>
            /\ ~present => /\ db' = db
                           /\ wakeup' = wakeup
                           /\ ret'.events = << >>
            /\ (arg.op = "add" /\ arg.build.name = name)
                    => Len(ret'.events) = 1
            /\ (arg.op = "remove" /\ arg.name = name) => ret'.events = << >>
    ]_vars

\* A remove of a name the index does not hold, which delivered nothing and
\* left the other build in place.
RemoveWitness ==
    /\ arg.op = "remove"
    /\ ret.events = << >>
    /\ arg.name \notin DOMAIN db
    /\ db # EmptyDb

\* ------------------------------------------------------------ the query run
\* One deployment per derived status, for a branch build and for a pull
\* request build, with every pair of timestamps (a build is scaled at or after
\* its creation; without the annotation last_scaled is the creation time).
QueryDeployments ==
    {dep \in
        [name : {1},
         repo : {"r"},
         target_branch : {"b"},
         pr : {None, 1},
         git_commit : {1},
         init_status : BuildInitStatus,
         replicas : {0, 1},
         status_replicas : {0, 1},
         available_replicas : {0, 1},
         deletion_timestamp : {None, MaxDbTime},
         last_scaled : {None} \cup (1 .. MaxDbTime),
         creation_timestamp : 1 .. MaxDbTime] :
        /\ dep.status_replicas = dep.available_replicas
        /\ dep.init_status # "started"
        /\ dep.init_status # "succeeded" =>
                dep.replicas = 0 /\ dep.status_replicas = 0
        /\ dep.deletion_timestamp # None =>
                /\ dep.init_status = "succeeded"
                /\ dep.replicas = 0 /\ dep.status_replicas = 0
        /\ dep.last_scaled # None => dep.last_scaled >= dep.creation_timestamp}

QueryRows == {from_deployment(dep) : dep \in QueryDeployments}

StatusRank(status) ==
    CHOOSE i \in 1 .. 7 :
        << "stopped", "stopping", "initializing", "starting", "started",
           "failed", "undeploying" >>[i] = status

\* Names are interchangeable (uuids), so one table stands for all its
\* renamings: the rows b1, b2, ... are taken in non-decreasing RowCode order.
RowCode(b) ==
    ((StatusRank(b.status) * 2 + (IF b.pr = None THEN 0 ELSE 1))
        * (MaxDbTime + 1) + b.created) * (MaxDbTime + 1) + b.last_scaled

QueryTables(builds) ==
    UNION {{[i \in 1 .. k |-> [rows[i] EXCEPT !.name = i]] :
                rows \in {r \in [1 .. k -> QueryRows] :
                            \A i \in 1 .. k - 1 :
                                RowCode(r[i]) <= RowCode(r[i + 1])}} :
           k \in 0 .. builds}

InitQuery ==
    /\ db \in QueryTables(MaxBuilds)
    /\ wakeup = [r \in Reconcilers |-> FALSE]
    /\ arg = NoArg
    /\ ret = NoRet
    /\ NoCluster

\* db.oldest_stopped(limit)
QueryOldestStopped ==
    \E limit \in 0 .. MaxBuilds, wtie \in Ties, tie \in Ties :
        /\ ~ret.done
        /\ arg' = [op |-> "oldest_stopped", limit |-> limit]
        /\ ret' = [done |-> TRUE, rows |-> oldest_stopped(db, limit, wtie, tie)]
        /\ UNCHANGED <<db, wakeup, sysvars>>

NextQuery == QueryOldestStopped

SpecQuery == InitQuery /\ [][NextQuery]_vars

Range(seq) == {seq[i] : i \in 1 .. Len(seq)}

Min(a, b) == IF a < b THEN a ELSE b

\* The rows of d in the same (repo, target_branch, pr) group as row n.
Group(d, n) ==
    {m \in DOMAIN d : /\ d[m].repo = d[n].repo
                      /\ d[m].target_branch = d[n].target_branch
                      /\ d[m].pr = d[n].pr}

\* Row n is a branch build and no other build of its group is as recent.
NewestOfBranch(d, n) ==
    /\ d[n].pr = None
    /\ \A m \in Group(d, n) \ {n} : d[m].created < d[n].created

\* A choice of the preserved builds: of every branch group that has rows, one
\* row with the latest creation time.
Preserved(d, X) ==
    /\ \A n \in X : /\ d[n].pr = None
                    /\ \A m \in Group(d, n) : d[m].created <= d[n].created
                    /\ X \cap Group(d, n) = {n}
    /\ \A n \in DOMAIN d : d[n].pr = None => X \cap Group(d, n) # {}

Commits ==
    [repo : {"r"}, target_branch : {"b"}, pr : {None, 1},
     git_commit : 1 .. MaxCommits]

CommitOf(x) ==
    [repo |-> x.repo, target_branch |-> x.target_branch, pr |-> x.pr,
     git_commit |-> x.git_commit]

\* The deployment that "kubectl apply" of the deployment-mode manifests
\* creates: init-status todo, no replica, the finalizer set, no last-scaled
\* annotation yet.
NewDeployment(name, commit_info, t) ==
    [name |-> name,
     repo |-> commit_info.repo,
     target_branch |-> commit_info.target_branch,
     pr |-> commit_info.pr,
     git_commit |-> commit_info.git_commit,
     init_status |-> "todo",
     replicas |-> 0,
     status_replicas |-> 0,
     available_replicas |-> 0,
     deletion_timestamp |-> None,
     finalizers |-> TRUE,
     last_scaled |-> None,
     creation_timestamp |-> t]

\* A watch event: type None (an item of the first list, "LIST" here), ADDED,
\* MODIFIED or DELETED, with the object as it was then.
Event(type, object) == [type |-> type, object |-> object]

Identity == [n \in Names |-> n]

\* k8s._watch, first query: the deployments as they are now, in name order.
ListDeployments ==
    LET order == OrderBy(DOMAIN cluster, Identity, Identity)
    IN  [i \in 1 .. Len(order) |-> Event("LIST", cluster[order[i]])]

Put(f, name, value) ==
    [n \in DOMAIN f \cup {name} |-> IF n = name THEN value ELSE f[n]]

\* -------------------------------------------------------- controller.py
\* Controller.deployment_watcher, one event of the stream: a listed, added or
\* modified deployment is added to the index, a deleted one removed.
DeploymentWatcherEvent ==
    /\ devents # << >>
    /\ LET e == Head(devents)
           build == from_deployment(e.object)
       IN  IF e.type \in {"LIST", "ADDED", "MODIFIED"}
           THEN /\ db' = add(db, build)
                /\ wakeup' = IF add_changes(db, build)
                             THEN on_build_event(wakeup) ELSE wakeup
           ELSE /\ db' = remove(db, e.object.name)
                /\ wakeup' = IF e.object.name \in DOMAIN db
                             THEN on_build_event(wakeup) ELSE wakeup
    /\ devents' = Tail(devents)
    /\ arg' = NoArg
    /\ ret' = NoRet
    /\ UNCHANGED <<cluster, jobs, jevents, now, pc, cleanups, notified>>

\* Controller.deployment_watcher (re)entered by walking_dead after a watch
\* error: the index is emptied, the unread events are lost with the broken
\* stream, and the new stream starts with the list of the deployments.
DeploymentWatcherRestart ==
    /\ db' = reset(db)
    /\ devents' = ListDeployments
    /\ arg' = [op |-> "deployment_watcher"]
    /\ ret' = NoRet
    /\ UNCHANGED <<wakeup, cluster, jobs, jevents, now, pc, cleanups, notified>>

\* Controller.deploy_commit: nothing when the index holds a build of the
\* commit; otherwise Build.deploy under a fresh name (uuid4): the deployment
\* is applied, and the cluster reports it ADDED.
deploy_commit(commit_info) ==
    IF get_for_commit(db, commit_info.repo, commit_info.target_branch,
                      commit_info.pr, commit_info.git_commit) # {}
    THEN UNCHANGED <<cluster, devents, notified>>
    ELSE \E name \in Names \ DOMAIN cluster :
            LET deployment == NewDeployment(name, commit_info, now)
            IN  /\ Len(devents) < MaxQueue
                /\ cluster' = Put(cluster, name, deployment)
                /\ devents' = Append(devents, Event("ADDED", deployment))
                /\ notified' = notified \cup
                        {[git_commit |-> commit_info.git_commit,
                          state |-> "pending"]}

DeployCommit ==
    \E commit_info \in Commits :
        /\ deploy_commit(commit_info)
        /\ arg' = NoArg
        /\ ret' = NoRet
        /\ UNCHANGED <<db, wakeup, jobs, jevents, now, pc, cleanups>>

\* Time passes: timestamps have the precision of a second, so that what
\* happens between two ticks bears the same timestamp.
Tick ==
    /\ now < MaxTime
    /\ now' = now + 1
    /\ arg' = NoArg
    /\ ret' = NoRet
    /\ UNCHANGED <<db, wakeup, cluster, jobs, devents, jevents, cleanups, pc,
                   notified>>

\* ------------------------------------------------------------ the deploy run
InitController ==
    /\ db = EmptyDb
    /\ wakeup = [r \in Reconcilers |-> FALSE]
    /\ arg = NoArg
    /\ ret = NoRet

InitDeploy ==
    /\ InitController
    /\ NoCluster

NextDeploy ==
    \/ DeployCommit
    \/ DeploymentWatcherEvent
    \/ DeploymentWatcherRestart
    \/ Tick

SpecDeploy == InitDeploy /\ [][NextDeploy]_vars

\* C1: whatever the interleaving of deploy_commit calls with the deployment
\* watcher's events and restarts, the cluster never holds more than one
\* deployment of a commit_info.
OneDeploymentPerCommit ==
    \A c \in Commits :
        Cardinality({n \in DOMAIN cluster : CommitOf(cluster[n]) = c}) <= 1

\* ------------------------------------------------- operations on the cluster
\* The part of the outside world that one handler acts on while it runs: the
\* deployments, both watch streams, the initialize and cleanup jobs; ok turns
\* FALSE when a cluster call raises, called lists the builds the handler has
\* acted on, calls the cluster calls it has issued, posted the commit statuses
\* it has posted, and result is what its last _patch returned.
World ==
    [cluster |-> cluster, devents |-> devents, jobs |-> jobs,
     jevents |-> jevents, cleanups |-> cleanups, ok |-> TRUE,
     called |-> << >>, calls |-> << >>, posted |-> << >>, result |-> FALSE]

\* A cluster call, as the handler issued it.
ClusterCall(call, name) == [call |-> call, name |-> name]

Issue(w, call, name) == [w EXCEPT !.calls = Append(@, ClusterCall(call, name))]

\* github.notify_status: the state posted for the commit; "live" is pending
\* with the live link as target_url, "pending" is pending without link.
notify_status(w, git_commit, state) ==
    [w EXCEPT !.posted = Append(@, [git_commit |-> git_commit,
                                    state |-> state])]

Without(f, name) == [n \in DOMAIN f \ {name} |-> f[n]]

NoOp == "none"

\* A faulty _patch that patches the replicas whenever they are given.
patch_ops_without_compare(build, init_status, desired_replicas, remove_finalizers) ==
    [init_status |->
        IF init_status # "none" /\ init_status # build.init_status
        THEN init_status ELSE "none",
     replicas |-> desired_replicas,
     remove_finalizers |-> remove_finalizers]

\* Build._patch, the operations: a value is patched only when it differs
\* from the one the build (a snapshot held by the caller) carries.
patch_ops(build, init_status, desired_replicas, remove_finalizers) ==
    [init_status |->
        IF init_status # NoOp /\ init_status # build.init_status
        THEN init_status ELSE NoOp,
     replicas |->
        IF desired_replicas # None /\ desired_replicas # build.desired_replicas
        THEN desired_replicas ELSE None,
     remove_finalizers |-> remove_finalizers]

HasOps(ops) ==
    ops.init_status # NoOp \/ ops.replicas # None \/ ops.remove_finalizers

\* A faulty batch that replaces the replicas without the last-scaled
\* annotation.
Patched_without_last_scaled(deployment, ops, t) ==
    [deployment EXCEPT
        !.init_status = IF ops.init_status # NoOp THEN ops.init_status ELSE @,
        !.replicas = IF ops.replicas # None THEN ops.replicas ELSE @,
        !.finalizers = IF ops.remove_finalizers THEN FALSE ELSE @]

\* The deployment after the operations: the last-scaled annotation is written
\* together with the replicas.
Patched(deployment, ops, t) ==
    [deployment EXCEPT
        !.init_status = IF ops.init_status # NoOp THEN ops.init_status ELSE @,
        !.replicas = IF ops.replicas # None THEN ops.replicas ELSE @,
        !.last_scaled = IF ops.replicas # None THEN t ELSE @,
        !.finalizers = IF ops.remove_finalizers THEN FALSE ELSE @]

\* k8s.patch_deployment: 404 on a missing deployment, raised unless
\* not_found_ok. A deployment marked for deletion goes away with its
\* finalizer; any other change is reported MODIFIED.
patch_deployment(w0, name, ops, not_found_ok, t) ==
    LET w == Issue(w0, "patch_deployment", name)
    IN  IF name \notin DOMAIN w.cluster
        THEN [w EXCEPT !.ok = not_found_ok]
        ELSE LET deployment == Patched(w.cluster[name], ops, t)
             IN  IF /\ ~deployment.finalizers
                    /\ deployment.deletion_timestamp # None
                 THEN [w EXCEPT
                        !.cluster = Without(@, name),
                        !.devents = Append(@, Event("DELETED", deployment))]
                 ELSE [w EXCEPT
                        !.cluster = Put(@, name, deployment),
                        !.devents = Append(@, Event("MODIFIED", deployment))]

\* Build._patch: True when a patch was sent, False when there was nothing to
\* patch.
patch(w, build, init_status, desired_replicas, remove_finalizers,
      not_found_ok, t) ==
    LET ops == patch_ops(build, init_status, desired_replicas,
                         remove_finalizers)
    IN  IF HasOps(ops)
        THEN [patch_deployment(w, build.name, ops, not_found_ok, t)
                EXCEPT !.result = TRUE]
        ELSE [w EXCEPT !.result = FALSE]

\* k8s.delete_deployment: 404 on a missing deployment; the finalizer holds
\* the deployment, which only gets its deletion timestamp (once).
DeleteObject(w, name, t) ==
    IF name \notin DOMAIN w.cluster
    THEN [w EXCEPT !.ok = FALSE]
    ELSE LET deployment == w.cluster[name]
             marked == [deployment EXCEPT !.deletion_timestamp = t]
         IN  IF deployment.deletion_timestamp # None
             THEN w
             ELSE IF deployment.finalizers
             THEN [w EXCEPT
                    !.cluster = Put(@, name, marked),
                    !.devents = Append(@, Event("MODIFIED", marked))]
             ELSE [w EXCEPT
                    !.cluster = Without(@, name),
                    !.devents = Append(@, Event("DELETED", marked))]

delete_deployment(w, name, t) ==
    DeleteObject(Issue(w, "delete_deployment", name), name, t)

\* A job watch event: the job of the kind of a build, with the phase it was
\* in.
JobKindEvent(type, kind, name, phase) ==
    [type |-> type, kind |-> kind, name |-> name, phase |-> phase]

\* The jobs of a kind ("initialize" or "cleanup"), by build name.
JobsOf(w, kind) == IF kind = "initialize" THEN w.jobs ELSE w.cleanups

SetJob(w, kind, name, phase) ==
    IF kind = "initialize"
    THEN [w EXCEPT !.jobs[name] = phase]
    ELSE [w EXCEPT !.cleanups[name] = phase]

\* The deletion of a build's job of the kind, when it has one.
DeleteJob(w, kind, name) ==
    LET phase == JobsOf(w, kind)[name]
    IN  IF phase = "none"
        THEN w
        ELSE [SetJob(w, kind, name, "none") EXCEPT
                !.jevents = Append(@, JobKindEvent("DELETED", kind, name,
                                                   phase))]

\* k8s.kill_job: the build's jobs of the kind are deleted (none is fine).
kill_job(w0, name, job_kind) ==
    DeleteJob(Issue(w0, "kill_job", name), job_kind, name)

\* k8s.delete_resources: everything labelled with the build is deleted, not
\* waited for: the jobs go, the deployment (when there is one) is marked for
\* deletion or, without finalizer, goes too.
delete_resources(w0, name, t) ==
    LET w == Issue(w0, "delete_resources", name)
        v == IF name \in DOMAIN w.cluster THEN DeleteObject(w, name, t) ELSE w
    IN  DeleteJob(DeleteJob(v, "initialize", name), "cleanup", name)

\* k8s.deploy in initialize or cleanup mode: the manifests of the mode are
\* applied; the job is created (no pod yet) unless the build has a job of
\* that kind already, whatever its phase, which apply leaves as it is.
deploy(w0, name, job_kind) ==
    LET w == Issue(w0, IF job_kind = "initialize" THEN "deploy_initialize"
                       ELSE "deploy_cleanup", name)
    IN  IF JobsOf(w, job_kind)[name] # "none"
        THEN w
        ELSE [SetJob(w, job_kind, name, "pending") EXCEPT
                !.jevents = Append(@, JobKindEvent("ADDED", job_kind, name,
                                                   "pending"))]

\* Build._deploy for a job: k8s.deploy, then the pending commit status.
_deploy(w, build, job_kind) ==
    notify_status(deploy(w, build.name, job_kind), build.git_commit,
                  "pending")

\* ------------------------------------------------------ Build operations
\* A faulty start that also scales up a build whose initialization failed.
start_also_failed(w, build, t) ==
    IF build.status \notin {"stopped", "stopping", "failed"}
    THEN w
    ELSE patch(w, build, NoOp, 1, FALSE, FALSE, t)

start(w, build, t) ==
    IF build.status \notin {"stopped", "stopping"}
    THEN w
    ELSE patch(w, build, NoOp, 1, FALSE, FALSE, t)

stop(w, build, t) ==
    IF build.status # "started"
    THEN w
    ELSE patch(w, build, NoOp, 0, FALSE, FALSE, t)

undeploy(w, build, t) == delete_deployment(w, build.name, t)

\* A watch event of the initialize job of a build.
JobEvent(type, name, phase) == JobKindEvent(type, "initialize", name, phase)

\* Build.initialize: the initialize-mode manifests are applied.
initialize(w, build, t) == _deploy(w, build, "initialize")

\* The commit status that follows a _patch: posted when the patch went
\* through and returned True.
NotifyIfPatched(w, build, state) ==
    IF w.ok /\ w.result THEN notify_status(w, build.git_commit, state) ELSE w

on_initialize_started(w, build, t) ==
    IF build.init_status = "started"
    THEN w
    ELSE NotifyIfPatched(patch(w, build, "started", 0, FALSE, FALSE, t),
                         build, "live")

\* A faulty on_initialize_succeeded that also scales the deployment up.
on_initialize_succeeded_scaling(w, build, t) ==
    IF build.init_status = "succeeded"
    THEN w
    ELSE NotifyIfPatched(patch(w, build, "succeeded", 1, FALSE, FALSE, t),
                         build, "success")

on_initialize_succeeded(w, build, t) ==
    IF build.init_status = "succeeded"
    THEN w
    ELSE NotifyIfPatched(patch(w, build, "succeeded", None, FALSE, FALSE, t),
                         build, "success")

on_initialize_failed(w, build, t) ==
    IF build.init_status = "failed"
    THEN w
    ELSE NotifyIfPatched(patch(w, build, "failed", 0, FALSE, FALSE, t),
                         build, "failure")

\* k8s.delete_deployment_resources: the build's labelled resources are
\* deleted.
delete_deployment_resources(w, name, t) == delete_resources(w, name, t)

\* Build._delete_deployment_resources: the resources are deleted, then the
\* finalizer is removed (a missing deployment is fine), which lets the
\* cluster remove a deployment marked for deletion.
_delete_deployment_resources(w, build, t) ==
    patch(delete_deployment_resources(w, build.name, t), build,
          NoOp, None, TRUE, TRUE, t)

\* A faulty on_cleanup_succeeded that removes the finalizer and leaves the
\* labelled resources.
on_cleanup_succeeded_keeping_resources(w, build, t) ==
    patch(w, build, NoOp, None, TRUE, TRUE, t)

on_cleanup_succeeded(w, build, t) == _delete_deployment_resources(w, build, t)

\* A faulty cleanup that deletes the resources without running the job.
cleanup_without_job(w, build, t) == _delete_deployment_resources(w, build, t)

\* Build.cleanup: without cleanup job (settings.no_cleanup_job) the resources
\* are deleted at once; otherwise the initialize job is killed, the
\* deployment scaled to 0 (a missing one is fine) and the cleanup-mode
\* manifests applied.
cleanup(w, build, t) ==
    IF no_cleanup_job
    THEN _delete_deployment_resources(w, build, t)
    ELSE CHOOSE deployed \in
            {_deploy(scaled, build, "cleanup") :
                scaled \in {patch(killed, build, NoOp, 0, FALSE, TRUE, t) :
                    killed \in {kill_job(w, build.name, "initialize")}}} :
            TRUE

Call(op, w, build, t) ==
    CASE op = "initialize" -> initialize(w, build, t)
      [] op = "stop" -> stop(w, build, t)
      [] op = "undeploy" -> undeploy(w, build, t)
      [] op = "cleanup" -> cleanup(w, build, t)

\* "for build in builds: await build.op()": in order, up to the first call
\* that raises.
RECURSIVE ForEach(_, _, _, _)
ForEach(op, w, builds, t) ==
    IF builds = << >> \/ ~w.ok
    THEN w
    ELSE CHOOSE r \in
            {ForEach(op, v, Tail(builds), t) :
                v \in {Call(op, [w EXCEPT !.called = Append(@, Head(builds))],
                            db[Head(builds)], t)}} : TRUE

\* The world after a handler: both streams stay within MaxQueue.
Commit(w) ==
    /\ Len(w.devents) <= MaxQueue
    /\ Len(w.jevents) <= MaxQueue
    /\ cluster' = w.cluster
    /\ devents' = w.devents
    /\ jobs' = w.jobs
    /\ jevents' = w.jevents
    /\ cleanups' = w.cleanups
    /\ notified' = notified \cup Range(w.posted)

\* --------------------------------------------------------- the job stream
\* k8s._watch on jobs, first query: the jobs of a kind as they are, in name
\* order.
ListJobsOf(kind, j) ==
    LET order == OrderBy({n \in Names : j[n] # "none"}, Identity, Identity)
    IN  [i \in 1 .. Len(order) |->
            JobKindEvent("LIST", kind, order[i], j[order[i]])]

ListJobs(j) == ListJobsOf("initialize", j)

\* The list of the jobs of both kinds.
ListAllJobs(j, c) == ListJobsOf("initialize", j) \o ListJobsOf("cleanup", c)

\* The job controller of the cluster: a pod starts, then succeeds or fails.
JobProgress ==
    \E name \in Names, phase \in {"active", "succeeded", "failed"} :
        /\ \/ jobs[name] = "pending" /\ phase = "active"
           \/ jobs[name] = "active" /\ phase # "active"
        /\ Len(jevents) < MaxQueue
        /\ jobs' = [jobs EXCEPT ![name] = phase]
        /\ jevents' = Append(jevents, JobEvent("MODIFIED", name, phase))
        /\ arg' = NoArg
        /\ ret' = NoRet
        /\ UNCHANGED <<db, wakeup, cluster, devents, now, pc, cleanups, notified>>

\* A faulty get_build that never reads the cluster.
get_build_db_only(d, c, build_name, db_only) == get(d, build_name)

\* Controller.get_build: the build of the index, else (unless db_only) the
\* one read from the cluster (Build.from_name), else None.
get_build(d, c, build_name, db_only) ==
    IF build_name \in DOMAIN d THEN d[build_name]
    ELSE IF ~db_only /\ build_name \in DOMAIN c
    THEN from_deployment(c[build_name])
    ELSE NoBuild

\* The status of a job in a phase: which of job.status.active, succeeded and
\* failed is set (none of them for a job without pod yet).
JobStatus(phase) ==
    [active |-> phase = "active", succeeded |-> phase = "succeeded",
     failed |-> phase = "failed"]

\* A faulty dispatch that takes a succeeded job for a failed one and a
\* failed job for a succeeded one.
job_callback_swapped(job_kind, status) ==
    LET on == IF job_kind = "initialize" THEN "on_initialize_"
              ELSE "on_cleanup_"
    IN  IF job_kind \notin {"initialize", "cleanup"} THEN "none"
        ELSE IF status.active THEN on \o "started"
        ELSE IF status.succeeded THEN on \o "failed"
        ELSE IF status.failed THEN on \o "succeeded"
        ELSE "none"

\* Controller.job_watcher, the callback of a job event: by the kind of the
\* job and its status, active first, else succeeded, else failed.
job_callback(job_kind, status) ==
    IF job_kind = "initialize"
    THEN IF status.active THEN "on_initialize_started"
         ELSE IF status.succeeded THEN "on_initialize_succeeded"
         ELSE IF status.failed THEN "on_initialize_failed"
         ELSE "none"
    ELSE IF job_kind = "cleanup"
    THEN IF status.active THEN "on_cleanup_started"
         ELSE IF status.succeeded THEN "on_cleanup_succeeded"
         ELSE IF status.failed THEN "on_cleanup_failed"
         ELSE "none"
    ELSE "none"

\* The callbacks of a build, by name. on_cleanup_started and
\* on_cleanup_failed only log.
Callback(callback, w, build, t) ==
    CASE callback = "on_initialize_started" ->
            on_initialize_started(w, build, t)
      [] callback = "on_initialize_succeeded" ->
            on_initialize_succeeded(w, build, t)
      [] callback = "on_initialize_failed" ->
            on_initialize_failed(w, build, t)
      [] callback = "on_cleanup_succeeded" ->
            on_cleanup_succeeded(w, build, t)
      [] OTHER -> w

\* The callback of a job event, run on the build.
JobCallback(w, e, build, t) ==
    Callback(job_callback(e.kind, JobStatus(e.phase)), w, build, t)

\* Controller.job_watcher, one event of an initialize or cleanup job. The
\* build comes from the index, else from the cluster (Controller.get_build
\* with db_only=False, which adds it to the index); when there is none the
\* build's resources are deleted. A call that raises ends the watcher, which
\* walking_dead starts again with the list of the jobs.
JobWatcherEvent ==
    /\ jevents # << >>
    /\ LET t == now
           e == Head(jevents)
           known == e.name \in DOMAIN db
           build == get_build(db, cluster, e.name, FALSE)
           found == build # NoBuild
           w0 == [World EXCEPT !.jevents = Tail(@)]
           fetched == e.type # "DELETED" /\ ~known /\ found
       IN  \E w \in {IF e.type = "DELETED" THEN w0
                     ELSE IF ~found THEN delete_resources(w0, e.name, t)
                     ELSE JobCallback(w0, e, build, t)} :
            /\ db' = IF fetched THEN add(db, build) ELSE db
            /\ wakeup' = IF fetched THEN on_build_event(wakeup) ELSE wakeup
            /\ Commit(IF w.ok THEN w
                      ELSE [w EXCEPT
                              !.jevents = ListAllJobs(w.jobs, w.cleanups)])
            /\ arg' = [op |-> "job_watcher", event |-> e, known |-> known,
                       found |-> found, build |-> build]
            /\ ret' = [done |-> TRUE, ok |-> w.ok, calls |-> w.calls,
                       posted |-> w.posted]
    /\ UNCHANGED <<now, pc>>

\* Controller.initializer, one pass: runs when woken, clears its flag, and
\* launches at most the free capacity of initialize jobs, oldest build first.
InitializerPass ==
    /\ wakeup["initializer"]
    /\ \E tie \in Ties :
        LET initializing == count_by_init_status(db, "started")
            can_initialize == max_initializing - initializing
            builds == IF can_initialize <= 0 THEN << >>
                      ELSE to_initialize(db, can_initialize, tie)
        IN  \E w \in {ForEach("initialize", World, builds, now)} :
            /\ Commit(w)
            /\ arg' = [op |-> "initializer", current |-> initializing,
                       limit |-> max_initializing]
            /\ ret' = [done |-> TRUE, called |-> w.called, calls |-> w.calls,
                       posted |-> w.posted]
    /\ wakeup' = [wakeup EXCEPT !["initializer"] = FALSE]
    /\ UNCHANGED <<db, now, pc>>

\* ------------------------------------------------------ the initialize run
\* The clusters that hold one deployment of the set under each of the names.
ClusterSet(names, deployments) ==
    {c \in [names -> deployments] : \A n \in names : c[n].name = n}

\* The controller starts on a cluster: the index is empty, the deployment
\* watcher is about to read the list of the deployments.
ControllerStarts ==
    /\ InitController
    /\ devents = ListDeployments
    /\ jevents = << >>
    /\ now = MaxTime
    /\ NoCleanups

\* Deployments waiting for their initialization, of distinct commits.
TodoDeployments ==
    {NewDeployment(n, [repo |-> "r", target_branch |-> "b", pr |-> None,
                       git_commit |-> n], t) :
        n \in Names, t \in Times}

InitInitialize ==
    /\ cluster \in ClusterSet(1 .. MaxInitBuilds, TodoDeployments)
    /\ jobs = [n \in Names |-> "none"]
    /\ ControllerStarts

NextInitialize ==
    \/ DeploymentWatcherEvent
    \/ DeploymentWatcherRestart
    \/ InitializerPass
    \/ JobProgress
    \/ JobWatcherEvent

SpecInitialize == InitInitialize /\ [][NextInitialize]_vars

\* C2: in every reachable state at most max_initializing builds have an
\* initialize job in progress (launched, neither succeeded nor failed yet).
InitializingWithinLimit ==
    Cardinality({n \in Names : jobs[n] \in {"pending", "active"}})
        <= max_initializing

\* ------------------------------------------------- stopper and undeployer
\* Controller.stopper, one pass: runs when woken, clears its flag, and stops
\* the started builds in excess of max_started, oldest last_scaled first.
StopperPass ==
    /\ wakeup["stopper"]
    /\ \E tie \in Ties :
        LET started == count_by_status(db, "started")
            can_stop == started - max_started
            builds == IF can_stop <= 0 THEN << >>
                      ELSE oldest_started(db, can_stop, tie)
        IN  \E w \in {ForEach("stop", World, builds, now)} :
            /\ Commit(w)
            /\ arg' = [op |-> "stopper", current |-> started,
                       limit |-> max_started]
            /\ ret' = [done |-> TRUE, called |-> w.called, calls |-> w.calls,
                       posted |-> w.posted]
    /\ wakeup' = [wakeup EXCEPT !["stopper"] = FALSE]
    /\ UNCHANGED <<db, now, pc>>

\* Controller.undeployer, one pass: runs when woken, clears its flag, and
\* undeploys the evictable builds in excess of max_deployed, oldest
\* last_scaled first.
UndeployerPass ==
    /\ wakeup["undeployer"]
    /\ \E wtie \in Ties, tie \in Ties :
        LET deployed == count_deployed(db)
            can_undeploy == deployed - max_deployed
            builds == IF can_undeploy <= 0 THEN << >>
                      ELSE oldest_stopped(db, can_undeploy, wtie, tie)
        IN  \E w \in {ForEach("undeploy", World, builds, now)} :
            /\ Commit(w)
            /\ arg' = [op |-> "undeployer", current |-> deployed,
                       limit |-> max_deployed]
            /\ ret' = [done |-> TRUE, called |-> w.called, calls |-> w.calls,
                       posted |-> w.posted]
    /\ wakeup' = [wakeup EXCEPT !["undeployer"] = FALSE]
    /\ UNCHANGED <<db, now, pc>>

\* The deployment controller of the cluster: the pods follow the replicas
\* asked for, and the deployment's status reports them.
ReplicaProgress ==
    \E name \in DOMAIN cluster :
        LET deployment == cluster[name]
            scaled == [deployment EXCEPT
                        !.status_replicas = deployment.replicas,
                        !.available_replicas = deployment.replicas]
        IN  /\ scaled # deployment
            /\ Len(devents) < MaxQueue
            /\ cluster' = Put(cluster, name, scaled)
            /\ devents' = Append(devents, Event("MODIFIED", scaled))
            /\ arg' = NoArg
            /\ ret' = NoRet
            /\ UNCHANGED <<db, wakeup, jobs, jevents, now, pc, cleanups, notified>>

\* ------------------------------------------------------- the reconcile run
\* A deployment whose initialization succeeded, scaled to the replicas at
\* last_scaled, its pods settled.
ScaledDeployment(name, pr, created, replicas, last_scaled) ==
    [NewDeployment(name, [repo |-> "r", target_branch |-> "b", pr |-> pr,
                          git_commit |-> name], created)
        EXCEPT !.init_status = "succeeded",
               !.replicas = replicas,
               !.status_replicas = replicas,
               !.available_replicas = replicas,
               !.last_scaled = last_scaled]

\* Deployments to initialize, started ones, and stopped ones of the branch
\* and of the pull request, created and scaled before the controller starts.
ReconcileDeployments ==
    { d \in TodoDeployments : d.creation_timestamp < MaxTime }
    \cup
    { ScaledDeployment(n, None, c, 1, s) :
        n \in Names, c \in {1}, s \in 1 .. MaxTime - 1 }
    \cup
    { ScaledDeployment(n, pr, c, 0, c) :
        n \in Names, pr \in {None, 1}, c \in 1 .. MaxTime - 1 }

InitReconcile ==
    /\ cluster \in ClusterSet(Names, ReconcileDeployments)
    /\ jobs = [n \in Names |-> "none"]
    /\ ControllerStarts

NextReconcile ==
    \/ DeploymentWatcherEvent
    \/ InitializerPass
    \/ StopperPass
    \/ UndeployerPass
    \/ ReplicaProgress

SpecReconcile == InitReconcile /\ [][NextReconcile]_vars

Max0(x) == IF x > 0 THEN x ELSE 0

\* C3 as stated: a pass of the initializer, the stopper or the undeployer
\* dispatches at most max(0, limit - current) actions, limit and current read
\* at the start of the pass.
DispatchWithinLimitMinusCurrent ==
    arg.op \in {"initializer", "stopper", "undeployer"} =>
        Len(ret.called) <= Max0(arg.limit - arg.current)

\* C3, amended: the initializer dispatches at most max(0, max_initializing -
\* initializing) launches (its free capacity); the stopper and the undeployer
\* dispatch at most max(0, current - limit) actions (their excess), with
\* current = started, limit = max_started for the stopper and current =
\* count_deployed, limit = max_deployed for the undeployer.
DispatchWithinCapacityOrExcess ==
    /\ arg.op = "initializer" =>
        Len(ret.called) <= Max0(arg.limit - arg.current)
    /\ arg.op \in {"stopper", "undeployer"} =>
        Len(ret.called) <= Max0(arg.current - arg.limit)

\* A stopper pass has found every build started, more than max_started, and
\* has dispatched a stop for each build in excess.
DispatchWitness ==
    /\ arg.op = "stopper"
    /\ arg.current = MaxBuilds
    /\ Len(ret.called) = MaxBuilds - max_started

\* C4: a stopper pass that finds more started builds than max_started calls
\* stop() on exactly started - max_started builds, all of them started and
\* none scaled later than a started build it leaves alone; each of them is
\* patched to 0 replicas, and no other deployment is touched.
StopperStopsOldest ==
    [][(arg'.op = "stopper" /\ arg'.current > max_started) =>
        LET S == {n \in DOMAIN db : db[n].status = "started"}
            called == Range(ret'.called)
        IN  /\ Len(ret'.called) = Cardinality(S) - max_started
            /\ Cardinality(called) = Len(ret'.called)
            /\ called \subseteq S
            /\ \A x \in called, y \in S \ called :
                    db[x].last_scaled <= db[y].last_scaled
            /\ DOMAIN cluster' = DOMAIN cluster
            /\ \A x \in called :
                    /\ cluster'[x].replicas = 0
                    /\ cluster'[x].last_scaled = now
            /\ \A n \in DOMAIN cluster \ called : cluster'[n] = cluster[n]
    ]_vars

\* The stopper has stopped two of three started builds.
StopperWitness ==
    /\ arg.op = "stopper"
    /\ arg.current = 3
    /\ Len(ret.called) = 2
    /\ \A i \in 1 .. 2 : cluster[ret.called[i]].replicas = 0
    /\ \E n \in DOMAIN cluster : cluster[n].replicas = 1

\* ------------------------------------------------------ the stop run, fair
\* Started deployments, last scaled before the controller starts.
StartedDeployments ==
    { ScaledDeployment(n, None, 1, 1, s) : n \in Names, s \in 1 .. MaxTime - 1 }

InitStop ==
    /\ cluster \in ClusterSet(Names, StartedDeployments)
    /\ jobs = [n \in Names |-> "none"]
    /\ ControllerStarts

NextStop ==
    \/ DeploymentWatcherEvent
    \/ StopperPass
    \/ ReplicaProgress

\* The watcher reads every event of its stream, and a woken stopper runs its
\* pass. No start command arrives, and the watch stream does not break.
FairStop ==
    /\ InitStop
    /\ [][NextStop]_vars
    /\ WF_vars(DeploymentWatcherEvent)
    /\ WF_vars(StopperPass)

\* C5: whenever the index counts more than max_started started builds, it
\* later counts at most max_started of them.
StartedReturnsWithinLimit ==
    (count_by_status(db, "started") > max_started)
        ~> (count_by_status(db, "started") <= max_started)

\* More started builds than max_started are in the index, and one of them has
\* been stopped since.
StartedWitness ==
    /\ count_by_status(db, "started") > max_started
    /\ \E n \in DOMAIN db :
        /\ db[n].status = "started"
        /\ cluster[n].replicas = 0

\* -------------------------------------------------- the undeploy run, fair
\* Stopped deployments of the branch and of the pull request.
StoppedDeployments ==
    { ScaledDeployment(n, pr, c, 0, c) :
        n \in Names, pr \in {None, 1}, c \in 1 .. MaxTime - 1 }

InitUndeploy ==
    /\ cluster \in ClusterSet(Names, StoppedDeployments \cup
                                 {d \in StartedDeployments : d.last_scaled = 1})
    /\ jobs = [n \in Names |-> "none"]
    /\ ControllerStarts

NextUndeploy ==
    \/ DeploymentWatcherEvent
    \/ UndeployerPass

\* The watcher reads every event of its stream, and a woken undeployer runs
\* its pass. No deploy arrives, and the watch stream does not break.
FairUndeploy ==
    /\ InitUndeploy
    /\ [][NextUndeploy]_vars
    /\ WF_vars(DeploymentWatcherEvent)
    /\ WF_vars(UndeployerPass)

NothingEvictable ==
    \A n \in DOMAIN db :
        db[n].status \in {"stopping", "stopped", "failed"} =>
            /\ db[n].pr = None
            /\ \A m \in Group(db, n) : db[m].created <= db[n].created

CleanupJobSucceeded ==
    \E name \in DOMAIN cluster :
        /\ cluster[name].deletion_timestamp # None
        /\ LET known == name \in DOMAIN db
               build == IF known THEN db[name]
                        ELSE from_deployment(cluster[name])
           IN  /\ db' = IF known THEN db ELSE add(db, build)
               /\ wakeup' = IF known THEN wakeup ELSE on_build_event(wakeup)
               /\ \E w \in {on_cleanup_succeeded(World, build, now)} : Commit(w)
        /\ arg' = NoArg
        /\ ret' = NoRet
        /\ UNCHANGED <<now, pc>>

\* api.undeploy_build, DELETE /builds/{name}: the build of the index (404
\* when it has none) is undeployed.
UndeployBuild ==
    \E name \in DOMAIN db :
        /\ \E w \in {undeploy(World, db[name], now)} : Commit(w)
        /\ arg' = [op |-> "undeploy_build", name |-> name]
        /\ ret' = NoRet
        /\ UNCHANGED <<db, wakeup, now, pc>>

InitEvict ==
    /\ cluster \in ClusterSet(Names, StoppedDeployments)
    /\ jobs = [n \in Names |-> "none"]
    /\ ControllerStarts

NextEvict ==
    \/ DeploymentWatcherEvent
    \/ DeploymentWatcherRestart
    \/ UndeployerPass
    \/ UndeployBuild
    \/ CleanupJobSucceeded

SpecEvict == InitEvict /\ [][NextEvict]_vars

\* The deployment is a branch build, and every other deployment of its
\* (repo, target_branch) group in the cluster was created before it.
NewestInCluster(name) ==
    /\ name \in DOMAIN cluster
    /\ cluster[name].pr = None
    /\ \A m \in DOMAIN cluster \ {name} :
        (/\ cluster[m].repo = cluster[name].repo
         /\ cluster[m].target_branch = cluster[name].target_branch
         /\ cluster[m].pr = None)
            => cluster[m].creation_timestamp < cluster[name].creation_timestamp

\* C8: an undeployer pass never calls undeploy() on the branch build that is
\* the most recently created one of its group in the cluster, and every build
\* it undeploys was scaled no later than the evictable builds it leaves (the
\* stopping, stopped or failed builds of a pull request or with a later
\* created build in their group).
UndeployerSparesNewest ==
    [][arg'.op = "undeployer" =>
        LET called == Range(ret'.called)
            evictable == {n \in DOMAIN db :
                            /\ db[n].status \in {"stopping", "stopped", "failed"}
                            /\ \/ db[n].pr # None
                               \/ \E m \in Group(db, n) :
                                    db[m].created > db[n].created}
        IN  /\ \A x \in called : ~NewestInCluster(x)
            /\ \A x \in called, y \in evictable \ called :
                    db[x].last_scaled <= db[y].last_scaled
    ]_vars

\* ------------------------------------------------- the build operations run
\* Deployments in every derived status: with or without deletion timestamp,
\* in each init-status, scaled to 0 or 1, their pods there or not.
BuildDeployments ==
    {[NewDeployment(n, [repo |-> "r", target_branch |-> "b", pr |-> None,
                        git_commit |-> n], 1)
        EXCEPT !.init_status = i, !.replicas = r, !.status_replicas = a,
               !.available_replicas = a, !.deletion_timestamp = d,
               !.last_scaled = 1] :
        n \in Names, i \in BuildInitStatus, r \in {0, 1}, a \in {0, 1},
        d \in {None, 1}}

\* The index holds the builds as the deployment watcher last saw them; since
\* then the first deployment may have changed or gone, the event of which is
\* still in the stream.
InitBuild ==
    /\ \E seen \in ClusterSet(1 .. MaxInitBuilds, BuildDeployments) :
        /\ \A n \in DOMAIN seen \ {1} : from_deployment(seen[n]).status = "started"
        /\ db = [n \in DOMAIN seen |-> from_deployment(seen[n])]
        /\ \/ cluster = seen /\ devents = << >>
           \/ \E d \in BuildDeployments :
                /\ d.name = 1
                /\ d # seen[1]
                /\ cluster = Put(seen, 1, d)
                /\ devents = << Event("MODIFIED", d) >>
           \/ /\ seen[1].deletion_timestamp # None
              /\ cluster = Without(seen, 1)
              /\ devents = << Event("DELETED", seen[1]) >>
    /\ wakeup = [r \in Reconcilers |-> FALSE]
    /\ arg = NoArg
    /\ ret = NoRet
    /\ jobs = [n \in Names |-> "none"]
    /\ jevents = << >>
    /\ now = MaxTime
    /\ NoCleanups

\* build._patch(...) on a build of the index, with every combination of its
\* arguments.
PatchCall ==
    \E name \in DOMAIN db, init_status \in BuildInitStatus \cup {NoOp},
       desired_replicas \in {None, 0, 1}, remove_finalizers \in BOOLEAN,
       not_found_ok \in BOOLEAN :
        /\ ~ret.done
        /\ \E w \in {patch(World, db[name], init_status, desired_replicas,
                           remove_finalizers, not_found_ok, now)} :
            /\ Commit(w)
            /\ ret' = [done |-> TRUE, ok |-> w.ok, returned |-> w.result,
                       calls |-> w.calls]
        /\ arg' = [op |-> "_patch", build |-> db[name],
                   init_status |-> init_status,
                   desired_replicas |-> desired_replicas,
                   remove_finalizers |-> remove_finalizers]
        /\ UNCHANGED <<db, wakeup, now, pc>>

\* api.start_build and api.stop_build, POST /builds/{name}/start and /stop:
\* the build of the index (404 when it has none) is started or stopped.
StartStopBuild ==
    \E name \in DOMAIN db, op \in {"start", "stop"} :
        /\ ~ret.done
        /\ \E w \in {IF op = "start" THEN start(World, db[name], now)
                     ELSE stop(World, db[name], now)} :
            /\ Commit(w)
            /\ ret' = [done |-> TRUE, ok |-> w.ok, calls |-> w.calls]
        /\ arg' = [op |-> op, build |-> db[name]]
        /\ UNCHANGED <<db, wakeup, now, pc>>

NextBuild ==
    \/ PatchCall
    \/ StartStopBuild

SpecBuild == InitBuild /\ [][NextBuild]_vars

\* C12: _patch compares the requested init_status and desired_replicas with
\* the build snapshot (a value not given counts as not differing). When
\* neither differs and no finalizer removal is asked it issues no cluster
\* call, changes nothing and returns False; otherwise it issues exactly one
\* patch_deployment for the build and, unless that raises, returns True.
PatchSuppressedWhenSame ==
    [][arg'.op = "_patch" =>
        LET b == arg'.build
            differs ==
                \/ arg'.init_status # NoOp /\ arg'.init_status # b.init_status
                \/ /\ arg'.desired_replicas # None
                   /\ arg'.desired_replicas # b.desired_replicas
                \/ arg'.remove_finalizers
        IN  /\ ~differs => /\ ret'.calls = << >>
                           /\ ret'.returned = FALSE
                           /\ cluster' = cluster
                           /\ devents' = devents
            /\ differs =>
                /\ ret'.calls = << ClusterCall("patch_deployment", b.name) >>
                /\ ret'.ok => ret'.returned = TRUE
            /\ ret'.returned = TRUE => ret'.calls # << >>
    ]_vars

\* A _patch that asked for the init-status and the replicas the build had,
\* and did nothing.
PatchWitness ==
    /\ arg.op = "_patch"
    /\ arg.init_status = arg.build.init_status
    /\ arg.desired_replicas = arg.build.desired_replicas
    /\ ~arg.remove_finalizers
    /\ ret.returned = FALSE
    /\ ret.calls = << >>

JobWatcherRestart ==
    /\ jevents' = ListAllJobs(jobs, cleanups)
    /\ arg' = NoArg
    /\ ret' = NoRet
    /\ UNCHANGED <<db, wakeup, cluster, jobs, devents, now, pc, cleanups, notified>>

\* The controller starts on a cluster with one deployment to initialize,
\* whose initialize job may have been launched already, and with initialize
\* jobs left behind by builds whose deployment is gone.
InitJobs ==
    /\ cluster \in ClusterSet({1}, {d \in TodoDeployments :
                                      d.creation_timestamp = 1})
    /\ jobs \in {j \in [Names -> {"none", "active", "succeeded", "failed"}] :
                    \A n \in Names :
                        n \notin 1 .. MaxInitBuilds => j[n] = "none"}
    /\ NoCleanups
    /\ InitController
    /\ devents = ListDeployments
    /\ jevents = ListAllJobs(jobs, cleanups)
    /\ now = MaxTime

NextJobs ==
    \/ DeploymentWatcherEvent
    \/ InitializerPass
    \/ JobProgress
    \/ JobWatcherEvent
    \/ JobWatcherRestart

SpecJobs == InitJobs /\ [][NextJobs]_vars

\* The commit statuses a step posted.
PostedBy(r) == IF "posted" \in DOMAIN r THEN Range(r.posted) ELSE {}

\* C13: the job watcher posts none of the commit statuses pending with live
\* link, success and failure a second time for a commit, however often it
\* receives the job's phase before the index is refreshed.
StatusPostedOnce ==
    [][arg'.op = "job_watcher" =>
        \A p \in PostedBy(ret') :
            p.state \in {"live", "success", "failure"} => p \notin notified
    ]_vars

\* C14: the passes of the initializer and of the cleaner post no commit
\* status, and no pending status (without link) is posted for a commit for
\* which success or failure has been posted.
StatusOnFourTransitions ==
    [][/\ arg'.op \in {"initializer", "cleaner"} => PostedBy(ret') = {}
       /\ \A p \in PostedBy(ret') :
            p.state = "pending" =>
                ~\E q \in notified :
                    /\ q.git_commit = p.git_commit
                    /\ q.state \in {"success", "failure"}
    ]_vars

\* The job watcher handles the success of the initialize job of a build that
\* it does not hold as succeeded and whose deployment is there.
OnInitializeSucceeded ==
    /\ arg'.op = "job_watcher"
    /\ arg'.event.type # "DELETED"
    /\ arg'.event.kind = "initialize"
    /\ arg'.event.phase = "succeeded"
    /\ arg'.found
    /\ arg'.build.init_status # "succeeded"
    /\ arg'.event.name \in DOMAIN cluster

OrphanJobDeletesResources ==
    [][(arg'.op = "job_watcher" /\ arg'.event.type # "DELETED") =>
        LET n == arg'.event.name
        IN  /\ (n \notin DOMAIN db /\ n \notin DOMAIN cluster) =>
                /\ ret'.calls = << ClusterCall("delete_resources", n) >>
                /\ db' = db
                /\ wakeup' = wakeup
                /\ ret'.posted = << >>
                /\ cluster' = cluster
                /\ jobs'[n] = "none"
            /\ (n \notin DOMAIN db /\ n \in DOMAIN cluster) =>
                /\ n \in DOMAIN db'
                /\ db'[n] = from_deployment(cluster[n])
                /\ arg'.build = db'[n]
                /\ \A i \in 1 .. Len(ret'.calls) :
                    ret'.calls[i].call # "delete_resources"
    ]_vars

\* The job watcher has deleted the resources of a build without deployment.
OrphanWitness ==
    /\ arg.op = "job_watcher"
    /\ ~arg.found
    /\ ret.calls = << ClusterCall("delete_resources", arg.event.name) >>
    /\ jobs[arg.event.name] = "none"

\* The job watcher has fetched from the cluster a build that the index did
\* not hold, and run the callback on it.
FetchedWitness ==
    /\ arg.op = "job_watcher"
    /\ ~arg.known
    /\ arg.found
    /\ arg.event.name \in DOMAIN db
    /\ ret.calls # << >>

\* -------------------------------------------------------- the cleanup run
\* Controller.cleaner, one pass: runs when woken, clears its flag, and calls
\* cleanup() on every undeploying build of the index, oldest first.
CleanerPass ==
    /\ wakeup["cleaner"]
    /\ \E tie \in Ties :
        \E w \in {ForEach("cleanup", World, to_cleanup(db, tie), now)} :
            /\ Commit(w)
            /\ arg' = [op |-> "cleaner"]
            /\ ret' = [done |-> TRUE, called |-> w.called, calls |-> w.calls,
                       posted |-> w.posted]
    /\ wakeup' = [wakeup EXCEPT !["cleaner"] = FALSE]
    /\ UNCHANGED <<db, now, pc>>

\* The job controller of the cluster, for a cleanup job: a pod starts, then
\* succeeds or fails.
CleanupJobProgress ==
    \E name \in Names, phase \in {"active", "succeeded", "failed"} :
        /\ \/ cleanups[name] = "pending" /\ phase = "active"
           \/ cleanups[name] = "active" /\ phase # "active"
        /\ Len(jevents) < MaxQueue
        /\ cleanups' = [cleanups EXCEPT ![name] = phase]
        /\ jevents' = Append(jevents,
                             JobKindEvent("MODIFIED", "cleanup", name, phase))
        /\ arg' = NoArg
        /\ ret' = NoRet
        /\ UNCHANGED <<db, wakeup, cluster, jobs, devents, now, pc, notified>>

\* Deployments whose initialization succeeded, stopped or started.
CleanupDeployments ==
    {ScaledDeployment(n, None, 1, r, 1) : n \in Names, r \in {0, 1}}

\* The controller starts on a cluster of initialized builds, the initialize
\* job of which may still be there.
InitCleanup ==
    /\ cluster \in ClusterSet(1 .. MaxInitBuilds, CleanupDeployments)
    /\ jobs \in {j \in [Names -> {"none", "succeeded"}] :
                    \A n \in Names : n \notin DOMAIN cluster => j[n] = "none"}
    /\ NoCleanups
    /\ InitController
    /\ devents = ListDeployments
    /\ jevents = ListAllJobs(jobs, cleanups)
    /\ now = MaxTime

NextCleanup ==
    \/ DeploymentWatcherEvent
    \/ UndeployBuild
    \/ CleanerPass
    \/ CleanupJobProgress
    \/ JobWatcherEvent
    \/ JobWatcherRestart

SpecCleanup == InitCleanup /\ [][NextCleanup]_vars

\* The finalizer of the deployment goes in this step (and with it, when it
\* is marked for deletion, the deployment).
FinalizerRemoved(n) ==
    /\ n \in DOMAIN cluster
    /\ cluster[n].finalizers
    /\ n \in DOMAIN cluster' => ~cluster'[n].finalizers

NoCleanupAfterFailure ==
    [][/\ arg'.op = "cleaner" =>
            \A n \in Range(ret'.called) : cleanups[n] # "failed"
       /\ \A n \in DOMAIN cluster : cleanups[n] = "failed" =>
            /\ cleanups'[n] = "failed"
            /\ n \in DOMAIN cluster'
            /\ cluster'[n].finalizers
            /\ from_deployment(cluster'[n]).status = "undeploying"
    ]_vars

\* The cleanup run without break of the watch streams, each watcher, the
\* cleaner and the cluster's job controller taking their steps.
NextFairCleanup ==
    \/ DeploymentWatcherEvent
    \/ UndeployBuild
    \/ CleanerPass
    \/ CleanupJobProgress
    \/ JobWatcherEvent

\* The start of that run: build 1 stopped or started, the others stopped, and
\* at most one initialize job left, so that a cleaner pass over all the
\* builds fits in the bounded job stream.
InitFairCleanup ==
    /\ InitCleanup
    /\ \A n \in DOMAIN cluster : n # 1 => cluster[n].replicas = 0
    /\ Cardinality({n \in Names : jobs[n] # "none"}) <= 1

FairCleanup ==
    /\ InitFairCleanup
    /\ [][NextFairCleanup]_vars
    /\ WF_vars(DeploymentWatcherEvent)
    /\ WF_vars(CleanerPass)
    /\ WF_vars(CleanupJobProgress)
    /\ WF_vars(JobWatcherEvent)

\* The steps of an undeploy, in their order: the index records a build as
\* undeploying only when the deletion of its deployment was requested; the
\* cleanup job is applied only by the cleaner, for a build the index holds
\* as undeploying; the finalizer goes only when the job watcher handles the
\* success of the cleanup job, after delete_resources; the build leaves the
\* index only when the deployment has left the cluster, and does not come
\* back (one removed event).
UndeployStepsInOrder ==
    \A n \in Names :
        /\ (n \in DOMAIN db' /\ db'[n].status = "undeploying") =>
                \/ n \notin DOMAIN cluster
                \/ cluster[n].deletion_timestamp # None
        /\ (cleanups[n] = "none" /\ cleanups'[n] # "none") =>
                /\ arg'.op = "cleaner"
                /\ n \in DOMAIN db
                /\ db[n].status = "undeploying"
        /\ FinalizerRemoved(n) =>
                /\ cleanups[n] = "succeeded"
                /\ arg'.op = "job_watcher"
                /\ ret'.calls = << ClusterCall("delete_resources", n),
                                   ClusterCall("patch_deployment", n) >>
        /\ (n \in DOMAIN db /\ n \notin DOMAIN db') => n \notin DOMAIN cluster
        /\ (n \notin DOMAIN db /\ n \notin DOMAIN cluster) => n \notin DOMAIN db'

CountAllIsSumByStatus ==
    count_all(db) =
        count_by_status(db, "stopped") + count_by_status(db, "stopping")
        + count_by_status(db, "initializing") + count_by_status(db, "starting")
        + count_by_status(db, "started") + count_by_status(db, "failed")
        + count_by_status(db, "undeploying")

\* After a removal the index holds one build, a failed one.
CountWitness ==
    /\ arg.op = "remove"
    /\ count_all(db) = 1
    /\ count_by_status(db, "failed") = 1
    /\ db[CHOOSE n \in DOMAIN db : TRUE].init_status = "failed"

\* ----------------------------------------------------------- the search run
\* A faulty search whose branch filter forgets "pr IS NULL".
search_branch_with_prs(d, repo, target_branch, branch, pr, name, status) ==
    {d[n] : n \in {m \in DOMAIN d :
        /\ repo \in {NoOp, ""} \/ d[m].repo = repo
        /\ target_branch \in {NoOp, ""} \/ d[m].target_branch = target_branch
        /\ branch \in {NoOp, ""} \/ d[m].target_branch = branch
        /\ pr = None \/ d[m].pr = pr
        /\ name = None \/ d[m].name = name
        /\ status \in {NoOp, ""} \/ d[m].status = status}}

\* BuildsDb.search, the rows selected (ORDER BY then puts them in order). A
\* filter is applied when its parameter is truthy ("if repo:"), so that an
\* empty string filters nothing, as None ("none" here) does; pr is applied
\* when it is not None.
search(d, repo, target_branch, branch, pr, name, status) ==
    {d[n] : n \in {m \in DOMAIN d :
        /\ repo \in {NoOp, ""} \/ d[m].repo = repo
        /\ target_branch \in {NoOp, ""} \/ d[m].target_branch = target_branch
        /\ branch \in {NoOp, ""} \/
                (d[m].target_branch = branch /\ d[m].pr = None)
        /\ pr = None \/ d[m].pr = pr
        /\ name = None \/ d[m].name = name
        /\ status \in {NoOp, ""} \/ d[m].status = status}}

\* Builds of the branches a and b and of pull requests into them, stopped or
\* started.
SearchRows ==
    {from_deployment(ScaledDeployment(1, pr, 1, replicas, 1)) :
        pr \in {None, 1}, replicas \in {0, 1}}

SearchTables ==
    UNION {{[i \in 1 .. k |->
                [rows[i] EXCEPT !.name = i, !.target_branch = branches[i]]] :
                rows \in [1 .. k -> SearchRows],
                branches \in [1 .. k -> {"a", "b"}]} :
           k \in 0 .. MaxBuilds}

InitSearch ==
    /\ db \in SearchTables
    /\ wakeup = [r \in Reconcilers |-> FALSE]
    /\ arg = NoArg
    /\ ret = NoRet
    /\ NoCluster

\* db.search(...), with any of its filters given, empty or left out.
Search ==
    \E repo \in {NoOp, "r"}, target_branch \in {NoOp, "", "a", "b", "c"},
       branch \in {NoOp, "", "a", "b", "c"}, pr \in {None, 1},
       status \in {NoOp, "stopped"} :
        /\ ~ret.done
        /\ arg' = [op |-> "search", repo |-> repo,
                   target_branch |-> target_branch, branch |-> branch,
                   pr |-> pr, status |-> status]
        /\ ret' = [done |-> TRUE,
                   rows |-> search(db, repo, target_branch, branch, pr, None,
                                   status)]
        /\ UNCHANGED <<db, wakeup, sysvars>>

NextSearch == Search

SpecSearch == InitSearch /\ [][NextSearch]_vars

\* The builds of the index.
Rows(d) == {d[n] : n \in DOMAIN d}

\* search(target_branch=X) and search(branch=X) for the branch value X.
SearchByBranch(X) ==
    LET by_target == search(db, NoOp, X, NoOp, None, None, NoOp)
        by_branch == search(db, NoOp, NoOp, X, None, None, NoOp)
        targeting == {b \in Rows(db) : b.target_branch = X}
    IN  /\ targeting \subseteq by_target
        /\ by_branch = {b \in targeting : b.pr = None}
        /\ by_branch \cup {b \in targeting : b.pr # None} \subseteq by_target

\* C28 as stated: for every index and every X, search(target_branch=X)
\* returns every build with that target branch, pull requests included,
\* search(branch=X) returns exactly the builds with target branch X and no
\* pull request, and the first holds the second and the pull request builds
\* into X.
SearchBranchForEveryValue == \A X \in {"", "a", "b", "c"} : SearchByBranch(X)

\* C28, amended: the same for every non-empty X; with an empty X the branch
\* filter is not applied and search(branch=X) returns every build.
SearchBranchForNonEmptyValue == \A X \in {"a", "b", "c"} : SearchByBranch(X)

\* A search on branch a returned its build and left out the pull request
\* into a and the build of branch b that the index holds too.
SearchWitness ==
    /\ ret.done
    /\ arg.op = "search"
    /\ arg.branch = "a" /\ arg.target_branch = NoOp /\ arg.pr = None
    /\ arg.repo = NoOp /\ arg.status = NoOp
    /\ ret.rows # {}
    /\ \E b \in Rows(db) : b.target_branch = "a" /\ b.pr # None
    /\ \E b \in Rows(db) : b.target_branch = "b"

\* ---------------------------------------------------------- the webhook run
\* webhooks._verify_github_signature: without secret every payload passes;
\* with one, the payload needs the header, equal to the HMAC of the body.
_verify_github_signature(signature_given, secret_set, signature_matches) ==
    IF ~secret_set THEN TRUE
    ELSE IF ~signature_given THEN FALSE
    ELSE signature_matches

\* settings.repos: one repository, r, with its branch b. A branch name is the
\* sequence of its "/"-separated parts.
SupportedRepos == {"r"}
SupportedBranches == {<< "b" >>}

\* Settings.is_repo_and_branch_supported: some entry of settings.repos matches
\* the repository and the branch.
is_repo_and_branch_supported(repo, target_branch) ==
    repo \in SupportedRepos /\ target_branch \in SupportedBranches

\* payload["ref"].split("/")[-1]
PushTargetBranch(ref) == << ref[Len(ref)] >>

\* webhooks.receive_payload: the background tasks scheduled for a payload.
receive_payload(signature_ok, event, payload) ==
    IF ~signature_ok THEN << >>
    ELSE IF event = "pull_request"
    THEN IF ~is_repo_and_branch_supported(payload.repo, payload.base)
         THEN << >>
         ELSE IF payload.action \in {"opened", "synchronize"}
         THEN << [task |-> "deploy_commit", repo |-> payload.repo,
                  target_branch |-> payload.base, pr |-> payload.number,
                  git_commit |-> payload.sha] >>
         ELSE IF payload.action = "closed"
         THEN << [task |-> "undeploy_builds", repo |-> payload.repo,
                  pr |-> payload.number] >>
         ELSE << >>
    ELSE IF event = "push"
    THEN IF ~is_repo_and_branch_supported(payload.repo,
                                          PushTargetBranch(payload.ref))
         THEN << >>
         ELSE << [task |-> "deploy_commit", repo |-> payload.repo,
                  target_branch |-> PushTargetBranch(payload.ref),
                  pr |-> None, git_commit |-> payload.sha] >>
    ELSE << >>

\* The payloads GitHub sends: pushes to the branches b, c and x/b and of the
\* tag b, pull requests into the branches b, c and x/b, of the repositories
\* r and q.
WebhookBranches == {<< "b" >>, << "c" >>, << "x", "b" >>}

WebhookRefs ==
    {<< "refs", "heads" >> \o branch : branch \in WebhookBranches}
        \cup {<< "refs", "tags", "b" >>}

Payloads ==
    [repo : {"r", "q"}, ref : WebhookRefs, base : WebhookBranches,
     action : {"opened", "synchronize", "closed", "edited"},
     number : {1}, sha : 1 .. MaxCommits]

InitWebhook ==
    /\ db = EmptyDb
    /\ wakeup = [r \in Reconcilers |-> FALSE]
    /\ arg = NoArg
    /\ ret = NoRet
    /\ NoCluster

\* POST /webhooks/github
ReceivePayload ==
    \E event \in {"pull_request", "push", "ping"}, payload \in Payloads,
       signature_given \in BOOLEAN, secret_set \in BOOLEAN,
       signature_matches \in BOOLEAN :
        /\ ~ret.done
        /\ signature_matches => signature_given
        /\ arg' = [op |-> "receive_payload", event |-> event,
                   payload |-> payload, secret_set |-> secret_set,
                   signature_given |-> signature_given,
                   signature_matches |-> signature_matches]
        /\ ret' = [done |-> TRUE,
                   tasks |-> receive_payload(
                        _verify_github_signature(signature_given, secret_set,
                                                 signature_matches),
                        event, payload)]
        /\ UNCHANGED <<db, wakeup, sysvars>>

NextWebhook == ReceivePayload

SpecWebhook == InitWebhook /\ [][NextWebhook]_vars

\* The branch a push changed: the ref without "refs/heads/"; a tag is none.
PushedBranch(ref) ==
    IF Len(ref) > 2 /\ ref[1] = "refs" /\ ref[2] = "heads"
    THEN SubSeq(ref, 3, Len(ref)) ELSE << >>

\* The branch a payload is for: the base of the pull request, the branch
\* pushed to.
PayloadBranch(event, payload) ==
    IF event = "pull_request" THEN payload.base ELSE PushedBranch(payload.ref)

\* C30: a push or pull_request payload for a repository or a target branch
\* that the settings do not support schedules neither deploy_commit nor
\* undeploy_builds.
UnsupportedSchedulesNothing ==
    [][(/\ arg'.op = "receive_payload"
        /\ arg'.event \in {"pull_request", "push"}
        /\ ~is_repo_and_branch_supported(
                arg'.payload.repo, PayloadBranch(arg'.event, arg'.payload)))
            => ret'.tasks = << >>]_vars

\* ------------------------------------------- start and stop on a changed build
\* C27: stop() sets the replicas to 0 only on a build that is started in the
\* cluster at the moment of the patch, and start() sets them to 1 only on a
\* build that is stopped or stopping at that moment, also when the build
\* changed after the caller read it from the index.
StartStopGuardOnCluster ==
    [][(/\ arg'.op \in {"start", "stop"}
        /\ ret'.calls # << >>
        /\ arg'.build.name \in DOMAIN cluster)
            => LET status == from_deployment(cluster[arg'.build.name]).status
               IN  IF arg'.op = "stop" THEN status = "started"
                   ELSE status \in {"stopped", "stopping"}
    ]_vars

\* ------------------------------------------- restart of the deployment watcher
\* The index a list of the deployments yields: every deployment of the
\* cluster under its name, with the state derived from it.
Indexed(c) == [n \in DOMAIN c |-> from_deployment(c[n])]

\* C25: each time the deployment watcher (re)starts, the index is emptied and
\* no listener is called (no wake flag changes), and the stream starts again
\* with the list of the deployments; and whenever the watcher has read its
\* stream to the end, the index holds exactly the deployments of the cluster,
\* each with the state derived from what it is now.
RelistIsAuthoritative ==
    /\ [][arg'.op = "deployment_watcher" =>
            /\ db' = EmptyDb
            /\ wakeup' = wakeup
            /\ devents' = [i \in 1 .. Len(devents') |->
                            Event("LIST", cluster[devents'[i].object.name])]
            /\ {devents'[i].object.name : i \in 1 .. Len(devents')}
                    = DOMAIN cluster
       ]_vars
    /\ [](devents = << >> => db = Indexed(cluster))

\* The watcher restarted after a deployment had left the cluster: the index
\* is empty, and the stream holds the list of the deployments that are left.
RelistWitness ==
    /\ arg.op = "deployment_watcher"
    /\ db = EmptyDb
    /\ devents # << >>
    /\ Cardinality(DOMAIN cluster) < MaxBuilds

\* ------------------------------------------------------------ the task run
\* The six tasks of Controller.start, each under walking_dead. A task is
\* "running" at the top of its loop (a watcher reads its stream, a reconciler
\* waits for its wake flag), a reconciler is "buffering" in the sleep of
\* EVENT_BUFFERING_DELAY that follows its wake-up, and a task whose function
\* raised is "restarting" in the sleep of WALKING_DEAD_RESTART_DELAY.
Watchers == {"deployment_watcher", "job_watcher"}

\* A clear that leaves the flag as it is.
clear_nothing(w, r) == w

\* A faulty clear that clears the flag of every reconciler.
clear_all(w, r) == [x \in DOMAIN w |-> FALSE]

\* asyncio.Event.clear on the wake flag of a reconciler.
clear(w, r) == [w EXCEPT ![r] = FALSE]

\* A supervisor that runs the function of a task once and never again.
walking_dead_once(p, t) == p

\* walking_dead, after the restart delay: the function of the task is
\* entered again.
walking_dead(p, t) == [p EXCEPT ![t] = "running"]

\* The per-build operation of each reconciler.
PassOp(r) ==
    CASE r = "initializer" -> "initialize"
      [] r = "stopper" -> "stop"
      [] r = "undeployer" -> "undeploy"
      [] r = "cleaner" -> "cleanup"

\* The builds a reconciler selects for a pass, read from the index when the
\* pass starts: the capacity test, then the query.
Selection(r, d, wtie, tie) ==
    CASE r = "initializer" ->
            LET can_initialize ==
                    max_initializing - count_by_init_status(d, "started")
            IN  IF can_initialize <= 0 THEN << >>
                ELSE to_initialize(d, can_initialize, tie)
      [] r = "stopper" ->
            LET can_stop == count_by_status(d, "started") - max_started
            IN  IF can_stop <= 0 THEN << >>
                ELSE oldest_started(d, can_stop, tie)
      [] r = "undeployer" ->
            LET can_undeploy == count_deployed(d) - max_deployed
            IN  IF can_undeploy <= 0 THEN << >>
                ELSE oldest_stopped(d, can_undeploy, wtie, tie)
      [] r = "cleaner" -> to_cleanup(d, tie)

\* "for build in builds: await build.op()" when the cluster may be out of
\* reach: the fail-th call (0: none) raises a transport error and has done
\* nothing; the exception leaves the loop.
RECURSIVE ForEachFailing(_, _, _, _, _)
ForEachFailing(op, w, builds, t, fail) ==
    IF builds = << >> \/ ~w.ok
    THEN w
    ELSE IF fail = 1
    THEN [w EXCEPT !.called = Append(@, Head(builds)), !.ok = FALSE]
    ELSE CHOOSE r \in
            {ForEachFailing(op, v, Tail(builds), t, fail - 1) :
                v \in {Call(op, [w EXCEPT !.called = Append(@, Head(builds))],
                            db[Head(builds)], t)}} : TRUE

\* Controller.deployment_watcher reads one event of its stream.
TaskDeploymentEvent ==
    /\ pc["deployment_watcher"] = "running"
    /\ devents # << >>
    /\ LET e == Head(devents)
           build == from_deployment(e.object)
           fired == IF e.type = "DELETED" THEN e.object.name \in DOMAIN db
                    ELSE add_changes(db, build)
       IN  /\ db' = IF e.type = "DELETED" THEN remove(db, e.object.name)
                    ELSE add(db, build)
           /\ wakeup' = IF fired THEN on_build_event(wakeup) ELSE wakeup
           /\ arg' = [op |-> IF fired THEN "build_event" ELSE "none"]
    /\ devents' = Tail(devents)
    /\ ret' = NoRet
    /\ UNCHANGED <<cluster, jobs, jevents, now, cleanups, notified, pc>>

\* Controller.job_watcher reads one event of its stream.
TaskJobEvent ==
    /\ pc["job_watcher"] = "running"
    /\ JobWatcherEvent

\* A watch breaks (k8s.WatchException): the watcher leaves its loop.
WatchFails(t) ==
    /\ pc[t] = "running"
    /\ pc' = [pc EXCEPT ![t] = "restarting"]
    /\ arg' = [op |-> "fail", task |-> t]
    /\ ret' = NoRet
    /\ UNCHANGED <<db, wakeup, cluster, jobs, devents, jevents, now, cleanups,
                   notified>>

\* walking_dead enters the function of a task again: the deployment watcher
\* empties the index and lists the deployments, the job watcher lists the
\* jobs, a reconciler waits for its wake flag.
TaskRestarts(t) ==
    /\ pc[t] = "restarting"
    /\ pc' = walking_dead(pc, t)
    /\ db' = IF t = "deployment_watcher" THEN reset(db) ELSE db
    /\ devents' = IF t = "deployment_watcher" THEN ListDeployments
                  ELSE devents
    /\ jevents' = IF t = "job_watcher" THEN ListAllJobs(jobs, cleanups)
                  ELSE jevents
    /\ arg' = [op |-> "restart", task |-> t]
    /\ ret' = NoRet
    /\ UNCHANGED <<wakeup, cluster, jobs, now, cleanups, notified>>

\* A reconciler without the sleep: it clears its flag and runs its pass as
\* soon as the flag is set, once per event that finds it waiting.
ReconcilerWakes_without_delay(r) ==
    /\ pc[r] = "running"
    /\ wakeup[r]
    /\ wakeup' = clear(wakeup, r)
    /\ arg' = [op |-> "pass", task |-> r, after |-> arg.op]
    /\ ret' = NoRet
    /\ UNCHANGED <<db, cluster, jobs, devents, jevents, now, cleanups,
                   notified, pc>>

\* "await self._wakeup_x.wait()" returns: the flag is set, and the reconciler
\* starts its sleep of EVENT_BUFFERING_DELAY.
ReconcilerWakes(r) ==
    /\ pc[r] = "running"
    /\ wakeup[r]
    /\ pc' = [pc EXCEPT ![r] = "buffering"]
    /\ arg' = [op |-> "wake", task |-> r]
    /\ ret' = NoRet
    /\ UNCHANGED <<db, wakeup, cluster, jobs, devents, jevents, now, cleanups,
                   notified>>

\* The sleep is over: the reconciler clears its flag, reads the index and
\* runs its pass; a call that raises ends the function, which walking_dead
\* enters again after its delay. "after" is the step the pass comes after.
ReconcilerPass(r) ==
    /\ pc[r] = "buffering"
    /\ \E wtie \in IF r = "undeployer" THEN Ties ELSE {Identity},
          tie \in Ties, fail \in 0 .. MaxBuilds :
        \E selected \in {Selection(r, db, wtie, tie)} :
            /\ fail <= Len(selected)
            /\ \E w \in {ForEachFailing(PassOp(r), World, selected, now,
                                        fail)} :
                /\ Commit(w)
                /\ pc' = [pc EXCEPT
                            ![r] = IF w.ok THEN "running" ELSE "restarting"]
                /\ ret' = [done |-> TRUE, ok |-> w.ok, selected |-> selected,
                           called |-> w.called, calls |-> w.calls,
                           posted |-> w.posted]
    /\ wakeup' = clear(wakeup, r)
    /\ arg' = [op |-> "pass", task |-> r, after |-> arg.op]
    /\ UNCHANGED <<db, now>>

\* Started builds, and stopped builds marked for deletion.
TaskDeployments ==
    {ScaledDeployment(n, None, 1, 1, 1) : n \in Names}
        \cup {[ScaledDeployment(n, None, 1, 0, 1) EXCEPT
                    !.deletion_timestamp = 1] : n \in Names}

\* The controller starts on a cluster of such builds, more of them than
\* max_started and max_deployed.
InitTasks ==
    /\ cluster \in ClusterSet(1 .. MaxInitBuilds, TaskDeployments)
    /\ jobs = [n \in Names |-> "none"]
    /\ ControllerStarts

\* The reconcilers at work, the deployment watcher reading its stream.
NextTasks ==
    \/ TaskDeploymentEvent
    \/ \E t \in Tasks : TaskRestarts(t)
    \/ \E r \in Reconcilers : ReconcilerWakes(r)
    \/ \E r \in Reconcilers : ReconcilerPass(r)

SpecTasks == InitTasks /\ [][NextTasks]_vars

\* C21: when a per-build action raises inside a reconciler pass, the
\* reconciler goes on with the next builds it selected for that pass: every
\* selected build is called.
PassProceedsAfterError ==
    [][(arg'.op = "pass" /\ ~ret'.ok) => ret'.called = ret'.selected]_vars

\* C22 as stated: a wake signal raised while a reconciler sleeps its
\* EVENT_BUFFERING_DELAY is preserved, it is still set after the pass that
\* follows the sleep.
SignalDuringSleepPreserved ==
    [][\A r \in Reconcilers :
        (pc[r] = "buffering" /\ arg.op = "build_event"
            /\ arg'.op = "pass" /\ arg'.task = r) => wakeup'[r]]_vars

\* C22: a wake signal raised while a reconciler sleeps its
\* EVENT_BUFFERING_DELAY is taken up by the pass that follows the sleep:
\* the pass clears the signal, the cleaner's pass selects the builds that
\* are undeploying in the index as the event left it, and the reconciler
\* is then waiting or restarting, with no pass pending for that signal.
SignalDuringSleepAbsorbed ==
    [][\A r \in Reconcilers :
        (pc[r] = "buffering" /\ arg.op = "build_event"
            /\ arg'.op = "pass" /\ arg'.task = r)
        => /\ ~wakeup'[r]
           /\ pc'[r] \in {"running", "restarting"}
           /\ r = "cleaner" =>
                {ret'.selected[i] : i \in DOMAIN ret'.selected}
                    = {n \in DOMAIN db : db[n].status = "undeploying"}]_vars

\* A build event came while the cleaner slept, and the pass that followed
\* selected builds and left the flag clear.
SignalDuringSleepWitness ==
    /\ arg.op = "pass"
    /\ arg.after = "build_event"
    /\ arg.task = "cleaner"
    /\ ret.selected # << >>
    /\ ~wakeup["cleaner"]

\* C23: the build events fired between a reconciler's wake-up and the end
\* of its buffering delay give one pass: a pass starts only from the sleep,
\* events during the sleep leave the reconciler sleeping with its flag set,
\* the pass ends the sleep with the flag clear, and a reconciler starts a
\* sleep only with its flag set, which only a build event does.
BurstIsOnePass ==
    [][\A r \in Reconcilers :
        /\ (arg'.op = "pass" /\ arg'.task = r)
            => (pc[r] = "buffering" /\ pc'[r] # "buffering" /\ ~wakeup'[r])
        /\ (pc[r] = "buffering" /\ arg'.op = "build_event")
            => (pc'[r] = "buffering" /\ wakeup'[r])
        /\ (pc[r] # "buffering" /\ pc'[r] = "buffering") => wakeup[r]
        /\ (~wakeup[r] /\ wakeup'[r]) => arg'.op = "build_event"]_vars

\* The events of the initial list of two builds or more have all been read,
\* the last of them while the reconciler slept, and its one pass is over.
BurstWitness ==
    /\ arg.op = "pass"
    /\ arg.after = "build_event"
    /\ devents = << >>
    /\ Cardinality(DOMAIN db) >= 2
    /\ pc[arg.task] = "running"
    /\ ~wakeup[arg.task]

\* The controller starts on a cluster of started builds: the stopper, then
\* the undeployer, then the cleaner have a build to work on.
InitFairTasks ==
    /\ InitTasks
    /\ \A n \in DOMAIN cluster : cluster[n].replicas = 1

\* The six tasks, the watches breaking at any time.
NextFairTasks ==
    \/ NextTasks
    \/ TaskJobEvent
    \/ \E t \in Watchers : WatchFails(t)

\* walking_dead sleeps its delay and calls the function of the task again:
\* a task that has failed is entered again in the end. Nothing obliges a
\* watch to break, or a cluster call to fail.
FairTasks ==
    /\ InitFairTasks
    /\ [][NextFairTasks]_vars
    /\ \A t \in Tasks : WF_vars(TaskRestarts(t))

\* The reconcilers and the deployment watcher, each taking in the end the
\* step it can take: a watcher reads the events of its stream, a reconciler
\* whose flag is set wakes, sleeps its delay and runs its pass, walking_dead
\* enters a failed task again.
FairReconcilers ==
    /\ SpecTasks
    /\ WF_vars(TaskDeploymentEvent)
    /\ \A t \in Tasks : WF_vars(TaskRestarts(t))
    /\ \A r \in Reconcilers : WF_vars(ReconcilerWakes(r))
    /\ \A r \in Reconcilers : WF_vars(ReconcilerPass(r))

\* C24: each reconciler has a periodic floor on its wait: a reconciler that
\* waits with its flag clear runs another pass in the end, build event or
\* not.
PeriodicFloor ==
    \A r \in Reconcilers :
        (pc[r] = "running" /\ ~wakeup[r]) ~> (arg.op = "pass" /\ arg.task = r)

NoLabel == 0

\* Controller.job_watcher, what one event of the stream gives rise to: a
\* job without build label or of another kind is skipped, a deleted job is
\* passed over, a job whose build is found neither in the index nor in the
\* cluster has the build's resources deleted, any other runs the callback.
job_watcher(event_type, build_name, job_kind, status, found) ==
    IF build_name = NoLabel THEN "none"
    ELSE IF job_kind \notin {"initialize", "cleanup"} THEN "none"
    ELSE IF event_type = "DELETED" THEN "none"
    ELSE IF ~found THEN "delete_resources"
    ELSE job_callback(job_kind, status)

JobEventInputs ==
    [event_type : {"LIST", "ADDED", "MODIFIED", "DELETED"},
     build_name : {NoLabel, 1},
     job_kind : {"initialize", "cleanup", "other"},
     status : [active : BOOLEAN, succeeded : BOOLEAN, failed : BOOLEAN],
     found : BOOLEAN]

InitDispatch ==
    /\ db = EmptyDb
    /\ wakeup = [r \in Reconcilers |-> FALSE]
    /\ arg = NoArg
    /\ ret = NoRet
    /\ NoCluster

\* The job watcher reads one event.
DispatchJobEvent ==
    \E i \in JobEventInputs :
        /\ ~ret.done
        /\ arg' = [op |-> "job_event", event |-> i]
        /\ ret' = [done |-> TRUE,
                   callback |-> job_watcher(i.event_type, i.build_name,
                                            i.job_kind, i.status, i.found)]
        /\ UNCHANGED <<db, wakeup, sysvars>>

NextDispatch == DispatchJobEvent

SpecDispatch == InitDispatch /\ [][NextDispatch]_vars

\* The job is in the phase: that counter of its status is set, alone.
InPhase(status, phase) == status = JobStatus(phase)

\* C31: a non-deleted event of an initialize or cleanup job whose build is
\* known runs the callback of the table: on_<kind>_started for an active
\* job, on_<kind>_succeeded for a succeeded one, on_<kind>_failed for a
\* failed one; an event without build label, of another job kind, or of a
\* deleted job runs no callback.
DispatchFollowsTable ==
    (arg.op = "job_event" /\ ret.done) =>
        LET i == arg.event
            routed == /\ i.build_name # NoLabel
                      /\ i.job_kind \in {"initialize", "cleanup"}
                      /\ i.event_type # "DELETED"
        IN  /\ (routed /\ i.found) =>
                \A phase \in {"started", "succeeded", "failed"} :
                    InPhase(i.status,
                            IF phase = "started" THEN "active" ELSE phase)
                        => ret.callback = "on_" \o i.job_kind \o "_" \o phase
            /\ ~routed => ret.callback = "none"

\* A failed cleanup job of a known build has run on_cleanup_failed.
JobDispatchWitness ==
    /\ arg.op = "job_event"
    /\ ret.done
    /\ arg.event.found
    /\ arg.event.event_type = "MODIFIED"
    /\ InPhase(arg.event.status, "failed")
    /\ ret.callback = "on_cleanup_failed"

\* ------------------------------------------------ last_scaled and the replicas
\* C33: a _patch batch that replaces the replicas replaces the last-scaled
\* annotation with it (the time of the patch), and a batch without the
\* replicas (init-status only, finalizer removal only) leaves last_scaled
\* and the replicas of the deployment as they are: the last_scaled of a
\* deployment is written by the batches that replace its replicas, and by
\* no other.
LastScaledWithReplicas ==
    [][arg'.op = "_patch" =>
        LET b == arg'.build
            replaces == /\ arg'.desired_replicas # None
                        /\ arg'.desired_replicas # b.desired_replicas
        IN  \A n \in DOMAIN cluster \cap DOMAIN cluster' :
                IF replaces /\ n = b.name
                THEN /\ cluster'[n].replicas = arg'.desired_replicas
                     /\ cluster'[n].last_scaled = now
                ELSE /\ cluster'[n].replicas = cluster[n].replicas
                     /\ cluster'[n].last_scaled = cluster[n].last_scaled
    ]_vars

\* A _patch has replaced the replicas of a deployment, and with them its
\* last-scaled annotation, leaving its init-status.
LastScaledWitness ==
    /\ arg.op = "_patch"
    /\ arg.init_status = NoOp
    /\ arg.desired_replicas # None
    /\ arg.desired_replicas # arg.build.desired_replicas
    /\ arg.build.name \in DOMAIN cluster
    /\ cluster[arg.build.name].replicas = arg.desired_replicas
    /\ cluster[arg.build.name].last_scaled = now
    /\ arg.build.last_scaled # now

\* ------------------------------------------------- the lifecycle of a build
\* k8s.deploy in deployment mode: "kubectl apply" of the deployment-mode
\* manifests. A build without deployment gets a new one; on a deployment
\* that is there, the manifest's init-status (todo) and replicas (0) are
\* applied again, everything else stays, and an apply that changes nothing
\* gives no event.
deploy_deployment(w0, build, t) ==
    LET w == Issue(w0, "deploy_deployment", build.name)
    IN  IF build.name \in DOMAIN w.cluster
        THEN LET applied == [w.cluster[build.name] EXCEPT
                                !.init_status = "todo", !.replicas = 0]
             IN  IF applied = w.cluster[build.name]
                 THEN w
                 ELSE [w EXCEPT
                        !.cluster = Put(@, build.name, applied),
                        !.devents = Append(@, Event("MODIFIED", applied))]
        ELSE LET created == NewDeployment(build.name, CommitOf(build), t)
             IN  [w EXCEPT
                    !.cluster = Put(@, build.name, created),
                    !.devents = Append(@, Event("ADDED", created))]

\* Build.redeploy: the cleanup job and the initialize job are killed, the
\* deployment is applied again, and pending is posted (Build._deploy).
redeploy(w, build, t) ==
    notify_status(
        deploy_deployment(
            kill_job(kill_job(w, build.name, "cleanup"), build.name,
                     "initialize"),
            build, t),
        build.git_commit, "pending")

\* The operations on one build.
BuildCall(op, w, build, t) ==
    CASE op = "start" -> start(w, build, t)
      [] op = "stop" -> stop(w, build, t)
      [] op = "undeploy" -> undeploy(w, build, t)
      [] op = "redeploy" -> redeploy(w, build, t)

\* A lifecycle operation on a build of the index (Controller.get_build with
\* db_only, as api._build_by_name calls it): start, stop, undeploy, redeploy.
\* Each call comes a second after the one before, MaxTime - 1 of them.
LifecycleCall ==
    \E name \in DOMAIN db, op \in {"start", "stop", "undeploy", "redeploy"} :
        /\ now < MaxTime
        /\ now' = now + 1
        /\ \E w \in {BuildCall(op, World, db[name], now')} :
            /\ Commit(w)
            /\ ret' = [done |-> TRUE, ok |-> w.ok, calls |-> w.calls,
                       posted |-> w.posted]
        /\ arg' = [op |-> op, build |-> db[name]]
        /\ UNCHANGED <<db, wakeup, pc>>

\* A build that waits for its initialization, or a stopped one.
LifecycleDeployments ==
    {d \in TodoDeployments : d.creation_timestamp = 1}
        \cup {ScaledDeployment(n, None, 1, 0, 1) : n \in Names}

\* The controller starts on a cluster of one build.
InitLifecycle ==
    /\ cluster \in ClusterSet({1}, LifecycleDeployments)
    /\ jobs = [n \in Names |-> "none"]
    /\ InitController
    /\ devents = ListDeployments
    /\ jevents = << >>
    /\ now = 1
    /\ NoCleanups

NextLifecycle ==
    \/ DeploymentWatcherEvent
    \/ JobWatcherEvent
    \/ InitializerPass
    \/ CleanerPass
    \/ JobProgress
    \/ CleanupJobProgress
    \/ ReplicaProgress
    \/ LifecycleCall

SpecLifecycle == InitLifecycle /\ [][NextLifecycle]_vars

\* C38: in the cluster no deployment has one replica or more asked for
\* while its init-status is not succeeded: a build is not scaled up before,
\* or without, a successful initialization.
ScaledUpOnlyWhenInitialized ==
    \A n \in DOMAIN cluster :
        cluster[n].replicas >= 1 => cluster[n].init_status = "succeeded"

\* C39: the initializer launches no initialize job for a build whose status
\* is undeploying: no build it calls initialize() on is undeploying in the
\* index, and no initialize job is created for a build that has a cleanup
\* job.
NoInitializeWhenUndeploying ==
    [][arg'.op = "initializer" =>
        \A i \in DOMAIN ret'.called :
            LET n == ret'.called[i]
            IN  /\ db[n].status # "undeploying"
                /\ (jobs[n] = "none" /\ jobs'[n] # "none")
                        => cleanups[n] = "none"]_vars

\* C40: undeploying is absorbing. A deployment that carries the deletion
\* timestamp carries it until it is gone, and a build that the index holds
\* as undeploying is held as undeploying until it is removed from the
\* index, whatever start(), stop(), redeploy() or job callback comes.
UndeployingIsAbsorbing ==
    [][/\ \A n \in DOMAIN cluster \cap DOMAIN cluster' :
            cluster[n].deletion_timestamp # None
                => cluster'[n].deletion_timestamp # None
       /\ \A n \in DOMAIN db \cap DOMAIN db' :
            db[n].status = "undeploying" => db'[n].status = "undeploying"
      ]_vars

\* ------------------------------------- the job watcher's read of the cluster
\* The job watcher handles an event whose build the index holds, or a
\* deleted job: nothing is awaited between the lookup and the callback.
JobWatcherKnown ==
    /\ jevents # << >>
    /\ Head(jevents).type # "READ"
    /\ Head(jevents).type = "DELETED" \/ Head(jevents).name \in DOMAIN db
    /\ JobWatcherEvent

\* Controller.get_build with db_only=False, the index not holding the build:
\* "await Build.from_name(build_name)" reads the deployment as it is now. The
\* job watcher is suspended with the event in hand until the read returns;
\* the head of its stream stands for the event it holds, with the build
\* read (NoBuild: no deployment).
JobWatcherReads ==
    /\ jevents # << >>
    /\ LET e == Head(jevents)
       IN  /\ e.type \notin {"READ", "DELETED"}
           /\ e.name \notin DOMAIN db
           /\ jevents' = << [type |-> "READ", kind |-> e.kind,
                             name |-> e.name, phase |-> e.phase,
                             build |-> get_build(db, cluster, e.name, FALSE)]
                         >> \o Tail(jevents)
           /\ arg' = [op |-> "from_name", event |-> e]
    /\ ret' = NoRet
    /\ UNCHANGED <<db, wakeup, cluster, jobs, devents, now, cleanups,
                   notified, pc>>

\* The read has returned: "self.db.add(build)" when there was a deployment,
\* and the job watcher goes on with the callback on the build read, or with
\* the deletion of the resources when there was none.
JobWatcherResumes ==
    /\ jevents # << >>
    /\ Head(jevents).type = "READ"
    /\ LET t == now
           e == Head(jevents)
           build == e.build
           found == build # NoBuild
           w0 == [World EXCEPT !.jevents = Tail(@)]
       IN  \E w \in {IF ~found THEN delete_resources(w0, e.name, t)
                     ELSE JobCallback(w0, e, build, t)} :
            /\ db' = IF found THEN add(db, build) ELSE db
            /\ wakeup' = IF found /\ add_changes(db, build)
                         THEN on_build_event(wakeup) ELSE wakeup
            /\ Commit(IF w.ok THEN w
                      ELSE [w EXCEPT
                              !.jevents = ListAllJobs(w.jobs, w.cleanups)])
            /\ arg' = [op |-> "get_build", event |-> e, found |-> found,
                       build |-> build]
            /\ ret' = [done |-> TRUE, ok |-> w.ok, calls |-> w.calls,
                       posted |-> w.posted]
    /\ UNCHANGED <<now, pc>>

\* The controller starts on a cluster of one build to initialize, whose
\* initialize job runs.
InitFallback ==
    /\ cluster \in ClusterSet({1}, {d \in TodoDeployments :
                                      d.creation_timestamp = 1})
    /\ jobs = [n \in Names |-> IF n = 1 THEN "active" ELSE "none"]
    /\ NoCleanups
    /\ InitController
    /\ devents = ListDeployments
    /\ jevents = ListAllJobs(jobs, cleanups)
    /\ now = 1

NextFallback ==
    \/ DeploymentWatcherEvent
    \/ JobWatcherKnown
    \/ JobWatcherReads
    \/ JobWatcherResumes
    \/ JobProgress
    \/ LifecycleCall

SpecFallback == InitFallback /\ [][NextFallback]_vars

\* C37: get_build(name, db_only=False) writes into the index no snapshot
\* older than what the deployment watcher has applied for the build: when it
\* adds the build it has read, it replaces no entry that was added while the
\* read was in flight and is as the deployment now is by another one, and
\* the deployment watcher has not yet passed the deployment's DELETED event
\* (the deployment is in the cluster, or its DELETED event is still in the
\* stream).
FallbackWritesNothingOlder ==
    [][(arg'.op = "get_build" /\ arg'.found) =>
        LET name == arg'.event.name
        IN  /\ (/\ name \in DOMAIN db
                /\ name \in DOMAIN cluster
                /\ db[name] = from_deployment(cluster[name]))
                    => db'[name] = db[name]
            /\ \/ name \in DOMAIN cluster
               \/ \E i \in DOMAIN devents :
                    /\ devents[i].type = "DELETED"
                    /\ devents[i].object.name = name]_vars

\* ------------------------------------------------- who writes the index
\* The controller starts on a cluster of started builds, more of them than
\* max_started and max_deployed; the initialize job of the first is still
\* there, its event may come before the deployment watcher's list.
InitWriters ==
    /\ cluster \in ClusterSet(1 .. MaxInitBuilds, TaskDeployments)
    /\ \A n \in DOMAIN cluster : cluster[n].replicas = 1
    /\ jobs = [n \in Names |-> IF n = 1 THEN "succeeded" ELSE "none"]
    /\ NoCleanups
    /\ InitController
    /\ devents = ListDeployments
    /\ jevents = ListAllJobs(jobs, cleanups)
    /\ now = MaxTime - 1

\* The two watchers, the four reconcilers and the lifecycle operations.
NextWriters ==
    \/ DeploymentWatcherEvent
    \/ JobWatcherEvent
    \/ InitializerPass
    \/ StopperPass
    \/ UndeployerPass
    \/ CleanerPass
    \/ LifecycleCall

SpecWriters == InitWriters /\ [][NextWriters]_vars

InitTarget(callback) ==
    CASE callback = "on_initialize_started" -> "started"
      [] callback = "on_initialize_succeeded" -> "succeeded"
      [] callback = "on_initialize_failed" -> "failed"
      [] OTHER -> NoOp

\* The commit status an initialize callback posts.
InitPosted(callback) ==
    CASE callback = "on_initialize_started" -> "live"
      [] callback = "on_initialize_succeeded" -> "success"
      [] callback = "on_initialize_failed" -> "failure"
      [] OTHER -> NoOp

\* The job watcher has just run an initialize callback on a build.
InitCallbackRan(a) ==
    /\ a.op = "job_watcher"
    /\ a.event.type # "DELETED"
    /\ a.event.kind = "initialize"
    /\ a.found
    /\ job_callback(a.event.kind, JobStatus(a.event.phase)) # "none"

\* C32: an initialize callback run on a build that has the target
\* init_status already sends no patch and posts no commit status; run on any
\* other build it sends one patch and, when the patch goes through, the
\* deployment has the target init_status, 0 replicas after started and
\* failed and its replicas as they were after succeeded, nothing else but
\* last_scaled changed, and the commit status of the callback is posted.
InitCallbacksFollowTable ==
    [][InitCallbackRan(arg') =>
        LET build == arg'.build
            name == build.name
            callback == job_callback(arg'.event.kind,
                                     JobStatus(arg'.event.phase))
            target == InitTarget(callback)
        IN  IF build.init_status = target
            THEN /\ ret'.calls = << >>
                 /\ ret'.posted = << >>
                 /\ cluster' = cluster
            ELSE /\ ret'.calls = <<ClusterCall("patch_deployment", name)>>
                 /\ ~ret'.ok => ret'.posted = << >> /\ cluster' = cluster
                 /\ ret'.ok =>
                    /\ ret'.posted = <<[git_commit |-> build.git_commit,
                                        state |-> InitPosted(callback)]>>
                    /\ name \in DOMAIN cluster /\ name \in DOMAIN cluster'
                    /\ cluster'[name].init_status = target
                    /\ cluster'[name].replicas =
                        IF target = "succeeded" THEN cluster[name].replicas
                        ELSE 0
                    /\ [cluster' EXCEPT ![name].last_scaled = 0,
                                        ![name].init_status = target,
                                        ![name].replicas = 0]
                       = [cluster EXCEPT ![name].last_scaled = 0,
                                         ![name].init_status = target,
                                         ![name].replicas = 0]]_vars

\* ------------------------------------------------------ oldest todo first
\* db.to_initialize(limit) on the index as it is.
QueryToInitialize ==
    \E limit \in 0 .. MaxBuilds, tie \in Ties :
        /\ arg' = [op |-> "to_initialize", limit |-> limit]
        /\ ret' = [done |-> TRUE, rows |-> to_initialize(db, limit, tie)]
        /\ UNCHANGED <<db, wakeup, sysvars>>

\* The job controller acts on the initialize job of a build.
JobProgressOf(name) == JobProgress /\ jobs'[name] # jobs[name]

NextFairInitialize ==
    \/ DeploymentWatcherEvent
    \/ InitializerPass
    \/ JobProgress
    \/ JobWatcherEvent
    \/ QueryToInitialize

\* The initialize run of a controller that starts on builds waiting for
\* their initialization: the watchers and the initializer keep running, and
\* every initialize job gets its pod and comes to its end.
FairInitialize ==
    /\ InitInitialize
    /\ [][NextFairInitialize]_vars
    /\ WF_vars(DeploymentWatcherEvent)
    /\ WF_vars(InitializerPass)
    /\ WF_vars(JobWatcherEvent)
    /\ \A name \in 1 .. MaxInitBuilds : WF_vars(JobProgressOf(name))

\* The rows are in ascending created order.
AscendingCreated(d, rows) ==
    \A i, j \in 1 .. Len(rows) : i < j => d[rows[i]].created <= d[rows[j]].created

\* The rows are todo builds of the index, each once, at most limit of them,
\* all of them when there are fewer, and none left out is older than one
\* returned.
OldestTodo(d, rows, limit) ==
    LET todo == {n \in DOMAIN d : d[n].init_status = "todo"}
    IN  /\ Range(rows) \subseteq todo
        /\ Cardinality(Range(rows)) = Len(rows)
        /\ Len(rows) = IF Cardinality(todo) < limit THEN Cardinality(todo)
                       ELSE limit
        /\ \A n \in todo \ Range(rows), r \in Range(rows) :
                d[r].created <= d[n].created

\* C34: to_initialize(limit) returns at most limit builds, all todo, in
\* ascending created order, the oldest ones; the initializer calls
\* initialize() on the oldest todo builds within its free capacity, in that
\* order; and every build the index holds as todo eventually has its
\* initialize job launched, when the watchers and the initializer keep
\* running and every initialize job comes to its end.
TodoServedOldestFirst ==
    /\ [][/\ arg'.op = "to_initialize" =>
                /\ OldestTodo(db, ret'.rows, arg'.limit)
                /\ AscendingCreated(db, ret'.rows)
          /\ arg'.op = "initializer" =>
                /\ OldestTodo(db, ret'.called,
                              IF arg'.limit > arg'.current
                              THEN arg'.limit - arg'.current ELSE 0)
                /\ AscendingCreated(db, ret'.called)]_vars
    /\ \A name \in Names :
        (name \in DOMAIN db /\ db[name].init_status = "todo")
            ~> (jobs[name] # "none")

TodoServedWitness ==
    /\ arg.op = "initializer"
    /\ ret.called # << >>
    /\ \E n \in DOMAIN db \ Range(ret.called) :
        /\ db[n].init_status = "todo"
        /\ jobs[n] = "none"
        /\ db[n].created > db[ret.called[1]].created

\* ------------------------------------------------------- no wake-up lost
\* The reads of a pass of a reconciler on the index.
PassReads(r, d) ==
    {Selection(r, d, wtie, tie) : wtie \in Ties, tie \in Ties}

\* C36: a change of the index that fires a build event sets the flag of
\* every reconciler; the flag of a reconciler is cleared by a pass of that
\* reconciler only, in the step that reads the index as it is at that
\* moment, so that a flag set during the sleep or during the calls of a pass
\* stays set; and a reconciler whose flag is set runs a pass later. Every
\* fired change is thus followed by a pass of each reconciler that read the
\* index after the change.
NoWakeupLost ==
    /\ [][/\ arg'.op = "build_event" =>
                \A r \in Reconcilers : wakeup'[r]
          /\ \A r \in Reconcilers :
                (wakeup[r] /\ ~wakeup'[r]) =>
                    /\ arg'.op = "pass"
                    /\ arg'.task = r
                    /\ ret'.done
                    /\ ret'.selected \in PassReads(r, db)
                    /\ db' = db]_vars
    /\ \A r \in Reconcilers :
        wakeup[r] ~> (arg.op = "pass" /\ arg.task = r /\ ret.done
                        /\ ~wakeup[r])

\* A build event has set the flag of a reconciler that was in its sleep:
\* the pass that follows reads the index with that change.
NoWakeupLostWitness ==
    /\ arg.op = "pass"
    /\ arg.after = "build_event"
    /\ ret.done
    /\ ret.ok
    /\ ret.called # << >>
    /\ ~wakeup[arg.task]

====
